---- MODULE Spec2Model ----
(***************************************************************************)
(* TaskFlow backend (MERN App): the project membership authority and the   *)
(* task state manager, as implemented by the project controller, the task  *)
(* controller and the Project / Task mongoose models.                      *)
(*                                                                         *)
(* The document store is modelled by two collections, projects and tasks,  *)
(* each a function from the ids of the stored documents to the documents.  *)
(* Every request handler is one action; res is the response of the last    *)
(* request together with the request's parameters.                         *)
(***************************************************************************)
EXTENDS Integers, Sequences, FiniteSets, TLC

VARIABLES users, projects, usedProjects, tasks, taskSeq, subSeq, comments, commentSeq,
          inflight, now, res

vars == <<users, projects, usedProjects, tasks, taskSeq, subSeq, comments, commentSeq,
          inflight, now, res>>

----------------------------------------------------------------------------
(* Bounds of the model *)

\* Entries of a members array.
MaxMembers == 2

\* Tasks created on the board of the membership specification.
MaxBoardTasks == 1

\* Tasks created in the column-ordering and listing specifications.
MaxTasks == 2

\* Largest order value a drag-and-drop request sends.
MaxOrder == 1

\* Tasks created in the task-lifecycle and subtask specifications.
MaxLifecycleTasks == 1

\* Last value of the clock.
MaxClock == 2

\* Tasks created in the cascade specification.
MaxCascadeTasks == 2

\* Requests started in the interleaving specification.
MaxRequests == 3

\* Subtasks added in the subtask specification.
MaxSubtasks == 2

\* Comments created in the comment specifications.
MaxComments == 2

\* Largest page number a list query asks for.
MaxPage == 3

\* Largest limit a list query asks for.
MaxLimit == 2

----------------------------------------------------------------------------
(* Users, roles and enumerations *)

Users == {"u1", "u2"}

\* Global role of each registered user (User.role).
UserRole == [u \in Users |-> IF u = "u1" THEN "admin" ELSE "user"]

\* Member roles sent in request bodies (of viewer, member, admin): every check
\* compares against admin only, so viewer and member are handled alike.
RoleInputs == {"member", "admin"}

ProjectStatuses == {"planning", "in-progress", "on-hold", "completed", "cancelled"}

TaskStatuses == {"todo", "in-progress", "in-review", "completed"}

TaskPriorities == {"low", "medium", "high", "critical"}

\* Comment contents sent in request bodies.
ContentInputs == {"first", "second"}

\* The text deleteComment leaves in place of the content.
Tombstone == "[This comment has been deleted]"

\* Reaction types sent in request bodies (of like, heart, thumbsup, thumbsdown,
\* celebrate): the handlers treat every type alike.
ReactionInputs == {"like", "heart"}

\* parentComment: null, and a parentCommentId that was not sent.
NoComment == 0

\* limit = 20 of getTasks and getComments when the query sends none.
DefaultLimit == 20

\* A request field that was not sent.
Undefined == "undefined"

\* An unset Date field, and a Date field holding the clock value t.
NoDate == <<>>

Date(t) == <<t>>

\* The project ids requests refer to; the store hands out each at most once.
ProjectIds == {"p1", "p2"}

\* No project: the project field of a response that names none.
NoProject == "none"

MemberEntries == [user : Users, role : RoleInputs]

\* The members arrays a createProject body may carry.
MemberLists == UNION {[1..n -> MemberEntries] : n \in 0..MaxMembers}

----------------------------------------------------------------------------
(* Documents: references are ObjectIds, or user documents once populated *)

ObjectId(u) == [oid |-> u]

UserDoc(u) == [_id |-> ObjectId(u), name |-> u]

\* ObjectId.prototype.toString
toString(o) == o.oid

\* The truthiness test `ref._id` of isMember: a populated reference has _id.
HasId(ref) == "_id" \in DOMAIN ref

\* Project.findById(id): the stored document, references as ObjectIds.
FindProject(p) ==
    [owner    |-> ObjectId(projects[p].owner),
     members  |-> [i \in 1..Len(projects[p].members) |->
                     [user |-> ObjectId(projects[p].members[i].user),
                      role |-> projects[p].members[i].role]],
     isPublic |-> projects[p].isPublic,
     status   |-> projects[p].status,
     completedAt |-> projects[p].completedAt]

\* .populate('owner').populate('members.user')
Populate(doc) ==
    [doc EXCEPT !.owner = UserDoc(toString(doc.owner)),
                !.members = [i \in 1..Len(doc.members) |->
                               [doc.members[i] EXCEPT !.user = UserDoc(toString(doc.members[i].user))]]]

\* isMember without the comparison against the owner.
isMemberMembersOnly(project, userId) ==
    \E i \in 1..Len(project.members) :
        LET memberId == IF HasId(project.members[i].user)
                        THEN project.members[i].user._id
                        ELSE project.members[i].user
        IN  toString(memberId) = userId

\* isMember that also lets everyone into a public project.
isMemberOrPublic(project, userId) ==
    \/ project.isPublic
    \/ toString(IF HasId(project.owner) THEN project.owner._id ELSE project.owner) = userId
    \/ isMemberMembersOnly(project, userId)

\* ProjectSchema.methods.isMember
isMember(project, userId) ==
    LET ownerId == IF HasId(project.owner) THEN project.owner._id ELSE project.owner
    IN  \/ toString(ownerId) = userId
        \/ \E i \in 1..Len(project.members) :
              LET memberId == IF HasId(project.members[i].user)
                              THEN project.members[i].user._id
                              ELSE project.members[i].user
              IN  toString(memberId) = userId

\* Array.prototype.find over members by user id: index of the first match, 0 if none.
FindMember(members, userId) ==
    IF \E i \in 1..Len(members) : toString(members[i].user) = userId
    THEN CHOOSE i \in 1..Len(members) :
            /\ toString(members[i].user) = userId
            /\ \A j \in 1..(i - 1) : toString(members[j].user) # userId
    ELSE 0

\* Array.prototype.filter keeping the entries whose user is not userId.
FilterOut(members, userId) ==
    SelectSeq(members, LAMBDA m : m.user # userId)

----------------------------------------------------------------------------
(* Authorization checks of the project controller *)

\* updateProject: isOwner || isAdmin (member role) || global admin
UpdateAllowed(project, user) ==
    LET k       == FindMember(project.members, user)
        isOwner == toString(project.owner) = user
        isAdmin == k # 0 /\ project.members[k].role = "admin"
    IN  isOwner \/ isAdmin \/ UserRole[user] = "admin"

\* deleteProject: owner or global admin
DeleteAllowed(project, user) ==
    toString(project.owner) = user \/ UserRole[user] = "admin"

\* addMember: owner or global admin
AddMemberAllowed(project, user) ==
    toString(project.owner) = user \/ UserRole[user] = "admin"

\* removeMember's check without the global admin.
RemoveMemberAllowedOwnerOnly(project, user) ==
    toString(project.owner) = user

\* removeMember: owner or global admin
RemoveMemberAllowed(project, user) ==
    toString(project.owner) = user \/ UserRole[user] = "admin"

\* getProject / getTasksByProject: member, or the project is public
ViewAllowed(project, user) ==
    isMember(project, user) \/ project.isPublic

----------------------------------------------------------------------------
(* Responses *)

Response(op, user, p, target, code) ==
    [op |-> op, user |-> user, project |-> p, target |-> target, task |-> 0,
     status |-> Undefined, priority |-> Undefined, code |-> code]

TaskResponse(op, user, p, t, status, priority, code) ==
    [op |-> op, user |-> user, project |-> p, target |-> Undefined, task |-> t,
     status |-> status, priority |-> priority, code |-> code]

Init ==
    /\ users = [u \in Users |-> [isActive |-> TRUE]]
    /\ projects = <<>>
    /\ usedProjects = {}
    /\ tasks = <<>>
    /\ taskSeq = 0
    /\ subSeq = 0
    /\ comments = <<>>
    /\ commentSeq = 0
    /\ inflight = <<>>
    /\ now = 1
    /\ res = Response("none", Undefined, NoProject, Undefined, 0)

----------------------------------------------------------------------------
(* Project controller *)

\* ProjectSchema.pre('save')
ProjectPreSave(doc, statusModified) ==
    IF statusModified /\ doc.status = "completed" /\ doc.completedAt = NoDate
    THEN [doc EXCEPT !.completedAt = Date(now)]
    ELSE doc

\* exports.createProject with body.status (Undefined when not sent): Project.create
\* saves a new document whose status was assigned, so the save middleware sees
\* the status as modified; id is the _id the store gives the new document
CreateProjectStatus(id, user, members, isPublic, status) ==
    /\ id \notin usedProjects
    /\ usedProjects' = usedProjects \cup {id}
    /\ projects' = projects @@ (id :>
                      ProjectPreSave([owner       |-> user,
                                      members     |-> members,
                                      isPublic    |-> isPublic,
                                      status      |-> IF status = Undefined THEN "planning" ELSE status,
                                      completedAt |-> NoDate], TRUE))
    /\ res' = Response("createProject", user, id, Undefined, 201)
    /\ UNCHANGED <<users, tasks, taskSeq, now, subSeq, comments, commentSeq, inflight>>

\* exports.createProject without body.status
CreateProject(id, user, members, isPublic) ==
    CreateProjectStatus(id, user, members, isPublic, Undefined)

\* exports.updateProject: Project.findByIdAndUpdate, which runs no save middleware;
\* body.isPublic is <<>> and body.status is Undefined when not sent
UpdateProjectStatus(user, p, isPublic, status) ==
    /\ IF p \notin DOMAIN projects
       THEN /\ res' = Response("updateProject", user, p, Undefined, 404)
            /\ UNCHANGED projects
       ELSE IF ~UpdateAllowed(FindProject(p), user)
       THEN /\ res' = Response("updateProject", user, p, Undefined, 403)
            /\ UNCHANGED projects
       ELSE /\ projects' = [projects EXCEPT
                              ![p].isPublic = IF isPublic = <<>> THEN @ ELSE isPublic[1],
                              ![p].status   = IF status = Undefined THEN @ ELSE status]
            /\ res' = Response("updateProject", user, p, Undefined, 200)
    /\ UNCHANGED <<users, usedProjects, tasks, taskSeq, now, subSeq, comments, commentSeq, inflight>>

\* exports.updateProject without body.status
UpdateProject(user, p, isPublic) ==
    UpdateProjectStatus(user, p, isPublic, Undefined)

\* deleteProject whose deleteMany skips the archived tasks.
DeleteProjectKeepArchived(user, p) ==
    /\ IF p \notin DOMAIN projects
       THEN /\ res' = Response("deleteProject", user, p, Undefined, 404)
            /\ UNCHANGED <<projects, tasks>>
       ELSE IF ~DeleteAllowed(FindProject(p), user)
       THEN /\ res' = Response("deleteProject", user, p, Undefined, 403)
            /\ UNCHANGED <<projects, tasks>>
       ELSE /\ tasks' = [t \in {x \in DOMAIN tasks :
                                  tasks[x].project # p \/ tasks[x].isArchived} |-> tasks[t]]
            /\ projects' = [q \in DOMAIN projects \ {p} |-> projects[q]]
            /\ res' = Response("deleteProject", user, p, Undefined, 200)
    /\ UNCHANGED <<users, usedProjects, taskSeq, now, subSeq, comments, commentSeq, inflight>>

\* exports.deleteProject: Task.deleteMany({project}) then project.deleteOne()
DeleteProject(user, p) ==
    /\ IF p \notin DOMAIN projects
       THEN /\ res' = Response("deleteProject", user, p, Undefined, 404)
            /\ UNCHANGED <<projects, tasks>>
       ELSE IF ~DeleteAllowed(FindProject(p), user)
       THEN /\ res' = Response("deleteProject", user, p, Undefined, 403)
            /\ UNCHANGED <<projects, tasks>>
       ELSE /\ tasks' = [t \in {x \in DOMAIN tasks : tasks[x].project # p} |-> tasks[t]]
            /\ projects' = [q \in DOMAIN projects \ {p} |-> projects[q]]
            /\ res' = Response("deleteProject", user, p, Undefined, 200)
    /\ UNCHANGED <<users, usedProjects, taskSeq, now, subSeq, comments, commentSeq, inflight>>

\* exports.addMember
AddMember(user, p, userId, role) ==
    /\ IF p \notin DOMAIN projects
       THEN /\ res' = Response("addMember", user, p, userId, 404)
            /\ UNCHANGED projects
       ELSE IF ~AddMemberAllowed(FindProject(p), user)
       THEN /\ res' = Response("addMember", user, p, userId, 403)
            /\ UNCHANGED projects
       ELSE IF FindMember(FindProject(p).members, userId) # 0
       THEN /\ res' = Response("addMember", user, p, userId, 400)
            /\ UNCHANGED projects
       ELSE /\ Len(projects[p].members) < MaxMembers
            /\ projects' = [projects EXCEPT ![p] =
                               ProjectPreSave([@ EXCEPT !.members =
                                   Append(@, [user |-> userId, role |-> role])], FALSE)]
            /\ res' = Response("addMember", user, p, userId, 200)
    /\ UNCHANGED <<users, usedProjects, tasks, taskSeq, now, subSeq, comments, commentSeq, inflight>>

\* exports.removeMember
RemoveMember(user, p, userId) ==
    /\ IF p \notin DOMAIN projects
       THEN /\ res' = Response("removeMember", user, p, userId, 404)
            /\ UNCHANGED projects
       ELSE IF ~RemoveMemberAllowed(FindProject(p), user)
       THEN /\ res' = Response("removeMember", user, p, userId, 403)
            /\ UNCHANGED projects
       ELSE IF userId = toString(FindProject(p).owner)
       THEN /\ res' = Response("removeMember", user, p, userId, 400)
            /\ UNCHANGED projects
       ELSE /\ projects' = [projects EXCEPT ![p] =
                               ProjectPreSave([@ EXCEPT !.members = FilterOut(@, userId)], FALSE)]
            /\ res' = Response("removeMember", user, p, userId, 200)
    /\ UNCHANGED <<users, usedProjects, tasks, taskSeq, now, subSeq, comments, commentSeq, inflight>>

\* exports.getProject: the project is populated before the access check
GetProject(user, p) ==
    /\ res' = IF p \notin DOMAIN projects
              THEN Response("getProject", user, p, Undefined, 404)
              ELSE IF ~ViewAllowed(Populate(FindProject(p)), user)
              THEN Response("getProject", user, p, Undefined, 403)
              ELSE Response("getProject", user, p, Undefined, 200)
    /\ UNCHANGED <<users, projects, usedProjects, tasks, taskSeq, now, subSeq, comments, commentSeq, inflight>>

----------------------------------------------------------------------------
(* Task controller *)

\* The four fixed buckets of the Kanban view.
BoardBuckets == {"todo", "in-progress", "in-review", "completed"}

\* .sort({createdAt: -1}) alone over a set of task ids.
RECURSIVE SortByCreatedAt(_, _)
SortByCreatedAt(store, S) ==
    IF S = {} THEN <<>>
    ELSE LET m == CHOOSE x \in S : \A y \in S : y <= x
         IN  <<m>> \o SortByCreatedAt(store, S \ {m})

\* .sort({order: 1, createdAt: -1}) over a set of task ids of the collection store.
RECURSIVE SortBoard(_, _)
SortBoard(store, S) ==
    IF S = {} THEN <<>>
    ELSE LET m == CHOOSE x \in S : \A y \in S \ {x} :
                     \/ store[x].order < store[y].order
                     \/ store[x].order = store[y].order /\ x > y
         IN  <<m>> \o SortBoard(store, S \ {m})

\* getTasksByProject: Task.find({project, isArchived: false}) sorted, each task
\* pushed to the bucket of its status when that bucket exists.
Grouped(store, p) ==
    LET found == SortBoard(store, {t \in DOMAIN store :
                                      store[t].project = p /\ ~store[t].isArchived})
    IN  [b \in BoardBuckets |-> SelectSeq(found, LAMBDA t : store[t].status = b)]

\* exports.getTasksByProject
GetTasksByProject(user, p) ==
    /\ res' = IF p \notin DOMAIN projects
              THEN Response("getTasksByProject", user, p, Undefined, 404)
              ELSE IF ~ViewAllowed(FindProject(p), user)
              THEN Response("getTasksByProject", user, p, Undefined, 403)
              ELSE Response("getTasksByProject", user, p, Undefined, 200) @@
                   [grouped |-> Grouped(tasks, p),
                    total   |-> Cardinality({t \in DOMAIN tasks :
                                   tasks[t].project = p /\ ~tasks[t].isArchived})]
    /\ UNCHANGED <<users, projects, usedProjects, tasks, taskSeq, now, subSeq, comments, commentSeq, inflight>>

\* The order values of the tasks stored with project p and status st.
ColumnOrders(p, st) ==
    {tasks[t].order : t \in {x \in DOMAIN tasks : tasks[x].project = p /\ tasks[x].status = st}}

\* The next order taken as the number of orders in the column.
NextOrderByCount(p, st) ==
    Cardinality(ColumnOrders(p, st))

\* createTask: Task.findOne({project, status}).sort({order: -1}), then
\* highestOrder ? highestOrder.order + 1 : 0
NextOrder(p, st) ==
    IF ColumnOrders(p, st) = {} THEN 0
    ELSE (CHOOSE o \in ColumnOrders(p, st) : \A o2 \in ColumnOrders(p, st) : o2 <= o) + 1

\* TaskSchema.pre('save')
TaskPreSave(doc, statusModified) ==
    IF statusModified
    THEN IF doc.status = "completed" /\ doc.completedAt = NoDate
         THEN [doc EXCEPT !.completedAt = Date(now)]
         ELSE IF doc.status # "completed"
         THEN [doc EXCEPT !.completedAt = NoDate]
         ELSE doc
    ELSE doc

\* exports.createTask; status, priority and assignee are Undefined, dueDate is
\* NoDate when not sent
CreateTaskBody(user, p, status, priority, assignee, dueDate) ==
    /\ IF p \notin DOMAIN projects
       THEN /\ res' = TaskResponse("createTask", user, p, 0, status, priority, 404)
            /\ UNCHANGED <<tasks, taskSeq>>
       ELSE IF ~isMember(FindProject(p), user)
       THEN /\ res' = TaskResponse("createTask", user, p, 0, status, priority, 403)
            /\ UNCHANGED <<tasks, taskSeq>>
       ELSE LET st  == IF status = Undefined THEN "todo" ELSE status
                doc == [project     |-> p,
                        creator     |-> user,
                        status      |-> st,
                        priority    |-> IF priority = Undefined THEN "medium" ELSE priority,
                        order       |-> NextOrder(p, st),
                        assignee    |-> assignee,
                        dueDate     |-> dueDate,
                        watchers    |-> <<user>>,
                        subtasks    |-> <<>>,
                        isArchived  |-> FALSE,
                        completedAt |-> NoDate]
            IN  /\ tasks' = tasks @@ ((taskSeq + 1) :> TaskPreSave(doc, TRUE))
                /\ taskSeq' = taskSeq + 1
                /\ res' = TaskResponse("createTask", user, p, taskSeq + 1, status, priority, 201)
    /\ UNCHANGED <<users, projects, usedProjects, now, subSeq, comments, commentSeq, inflight>>

\* exports.createTask without body.assignee and body.dueDate
CreateTask(user, p, status, priority) ==
    CreateTaskBody(user, p, status, priority, Undefined, NoDate)

\* exports.updateTask (PUT): Task.findByIdAndUpdate, which runs no save middleware;
\* body.status is Undefined, body.order and body.isArchived are <<>> when not sent
UpdateTaskBody(user, t, status, order, isArchived) ==
    /\ IF t \notin DOMAIN tasks
       THEN /\ res' = TaskResponse("updateTask", user, NoProject, t, status, Undefined, 404)
            /\ UNCHANGED tasks
       ELSE /\ tasks' = [tasks EXCEPT
                           ![t].status = IF status = Undefined THEN @ ELSE status,
                           ![t].order  = IF order = <<>> THEN @ ELSE order[1],
                           ![t].isArchived = IF isArchived = <<>> THEN @ ELSE isArchived[1]]
            /\ res' = TaskResponse("updateTask", user, tasks[t].project, t, status, Undefined, 200)
    /\ UNCHANGED <<users, projects, usedProjects, taskSeq, now, subSeq, comments, commentSeq, inflight>>

\* exports.updateTask without body.isArchived
UpdateTask(user, t, status, order) ==
    UpdateTaskBody(user, t, status, order, <<>>)

\* exports.updateTaskStatus (PATCH): assignment, then task.save()
UpdateTaskStatus(user, t, status, order) ==
    /\ IF t \notin DOMAIN tasks
       THEN /\ res' = TaskResponse("updateTaskStatus", user, NoProject, t, status, Undefined, 404)
            /\ UNCHANGED tasks
       ELSE LET doc == [tasks[t] EXCEPT
                           !.status = status,
                           !.order  = IF order = <<>> THEN @ ELSE order[1]]
            IN  /\ tasks' = [tasks EXCEPT ![t] = TaskPreSave(doc, status # tasks[t].status)]
                /\ res' = TaskResponse("updateTaskStatus", user, tasks[t].project, t, status, Undefined, 200)
    /\ UNCHANGED <<users, projects, usedProjects, taskSeq, now, subSeq, comments, commentSeq, inflight>>

\* task.subtasks.id(subtaskId): index of the subtask with that _id, 0 if none.
SubtaskIndex(doc, subtaskId) ==
    IF \E k \in 1..Len(doc.subtasks) : doc.subtasks[k]._id = subtaskId
    THEN CHOOSE k \in 1..Len(doc.subtasks) : doc.subtasks[k]._id = subtaskId
    ELSE 0

\* The toggle that leaves completedAt alone when the subtask becomes incomplete.
ToggleKeepDate(subtask) ==
    [subtask EXCEPT !.isCompleted = ~subtask.isCompleted,
                    !.completedAt = IF ~subtask.isCompleted THEN Date(now) ELSE @]

\* toggleSubtask: subtask.isCompleted = !subtask.isCompleted;
\* subtask.completedAt = subtask.isCompleted ? new Date() : undefined
Toggle(subtask) ==
    [subtask EXCEPT !.isCompleted = ~subtask.isCompleted,
                    !.completedAt = IF ~subtask.isCompleted THEN Date(now) ELSE NoDate]

\* exports.addSubtask: push({title}) gives the subdocument a fresh _id and the
\* schema defaults, then task.save()
AddSubtask(user, t) ==
    /\ IF t \notin DOMAIN tasks
       THEN /\ res' = TaskResponse("addSubtask", user, NoProject, t, Undefined, Undefined, 404)
                      @@ [subtask |-> 0]
            /\ UNCHANGED <<tasks, subSeq>>
       ELSE LET doc == [tasks[t] EXCEPT !.subtasks =
                           Append(@, [_id |-> subSeq + 1, isCompleted |-> FALSE,
                                      completedAt |-> NoDate])]
            IN  /\ tasks' = [tasks EXCEPT ![t] = TaskPreSave(doc, FALSE)]
                /\ subSeq' = subSeq + 1
                /\ res' = TaskResponse("addSubtask", user, tasks[t].project, t, Undefined,
                                       Undefined, 201) @@ [subtask |-> subSeq + 1]
    /\ UNCHANGED <<users, projects, usedProjects, taskSeq, comments, commentSeq, inflight, now>>

\* exports.toggleSubtask
ToggleSubtask(user, t, subtaskId) ==
    /\ IF t \notin DOMAIN tasks
       THEN /\ res' = TaskResponse("toggleSubtask", user, NoProject, t, Undefined, Undefined, 404)
                      @@ [subtask |-> subtaskId]
            /\ UNCHANGED tasks
       ELSE IF SubtaskIndex(tasks[t], subtaskId) = 0
       THEN /\ res' = TaskResponse("toggleSubtask", user, tasks[t].project, t, Undefined,
                                   Undefined, 404) @@ [subtask |-> subtaskId]
            /\ UNCHANGED tasks
       ELSE LET k   == SubtaskIndex(tasks[t], subtaskId)
                doc == [tasks[t] EXCEPT !.subtasks[k] = Toggle(@)]
            IN  /\ tasks' = [tasks EXCEPT ![t] = TaskPreSave(doc, FALSE)]
                /\ res' = TaskResponse("toggleSubtask", user, tasks[t].project, t, Undefined,
                                       Undefined, 200) @@ [subtask |-> subtaskId]
    /\ UNCHANGED <<users, projects, usedProjects, taskSeq, subSeq, comments, commentSeq, inflight, now>>

\* exports.deleteTask: Task.findById, then task.deleteOne()
DeleteTask(user, t) ==
    /\ IF t \notin DOMAIN tasks
       THEN /\ res' = TaskResponse("deleteTask", user, NoProject, t, Undefined, Undefined, 404)
            /\ UNCHANGED tasks
       ELSE /\ tasks' = [x \in DOMAIN tasks \ {t} |-> tasks[x]]
            /\ res' = TaskResponse("deleteTask", user, tasks[t].project, t, Undefined,
                                   Undefined, 200)
    /\ UNCHANGED <<users, projects, usedProjects, taskSeq, subSeq, comments, commentSeq, inflight, now>>

\* exports.deleteSubtask: task.subtasks.filter(st => st._id.toString() !== subtaskId),
\* then task.save(); an unknown subtaskId is answered 200 as well
DeleteSubtask(user, t, subtaskId) ==
    /\ IF t \notin DOMAIN tasks
       THEN /\ res' = TaskResponse("deleteSubtask", user, NoProject, t, Undefined, Undefined, 404)
                      @@ [subtask |-> subtaskId]
            /\ UNCHANGED tasks
       ELSE LET doc == [tasks[t] EXCEPT !.subtasks =
                           SelectSeq(@, LAMBDA st : st._id # subtaskId)]
            IN  /\ tasks' = [tasks EXCEPT ![t] = TaskPreSave(doc, FALSE)]
                /\ res' = TaskResponse("deleteSubtask", user, tasks[t].project, t, Undefined,
                                       Undefined, 200) @@ [subtask |-> subtaskId]
    /\ UNCHANGED <<users, projects, usedProjects, taskSeq, subSeq, comments, commentSeq, inflight, now>>

----------------------------------------------------------------------------
(* Interleaved requests: every await of a handler is a separate store access.  *)
(* inflight holds one record per started request with the handler's position   *)
(* (pc) and its local variables.                                               *)

Request(op, user, p, pc, highestOrder) ==
    [op |-> op, user |-> user, project |-> p, pc |-> pc, highestOrder |-> highestOrder]

\* deleteProject up to its first await: Project.findById, then the 404 and 403 returns
DeleteProjectFind(user, p) ==
    /\ Len(inflight) < MaxRequests
    /\ IF p \notin DOMAIN projects
       THEN /\ inflight' = Append(inflight, Request("deleteProject", user, p, "done", <<>>))
            /\ res' = Response("deleteProject", user, p, Undefined, 404)
       ELSE IF ~DeleteAllowed(FindProject(p), user)
       THEN /\ inflight' = Append(inflight, Request("deleteProject", user, p, "done", <<>>))
            /\ res' = Response("deleteProject", user, p, Undefined, 403)
       ELSE /\ inflight' = Append(inflight, Request("deleteProject", user, p, "deleteMany", <<>>))
            /\ UNCHANGED res
    /\ UNCHANGED <<users, projects, usedProjects, tasks, taskSeq, subSeq, comments, commentSeq, now>>

\* A first step of the cascade that deletes no task.
DeleteProjectTasksNone(r) ==
    /\ r \in DOMAIN inflight
    /\ inflight[r].op = "deleteProject" /\ inflight[r].pc = "deleteMany"
    /\ inflight' = [inflight EXCEPT ![r].pc = "deleteOne"]
    /\ UNCHANGED <<users, projects, usedProjects, tasks, taskSeq, subSeq, comments, commentSeq, now, res>>

\* deleteProject: await Task.deleteMany({project: project._id})
DeleteProjectTasks(r) ==
    /\ r \in DOMAIN inflight
    /\ inflight[r].op = "deleteProject" /\ inflight[r].pc = "deleteMany"
    /\ tasks' = [t \in {x \in DOMAIN tasks : tasks[x].project # inflight[r].project} |-> tasks[t]]
    /\ inflight' = [inflight EXCEPT ![r].pc = "deleteOne"]
    /\ UNCHANGED <<users, projects, usedProjects, taskSeq, subSeq, comments, commentSeq, now, res>>

\* deleteProject: await project.deleteOne(), then the 200 response
DeleteProjectDoc(r) ==
    /\ r \in DOMAIN inflight
    /\ inflight[r].op = "deleteProject" /\ inflight[r].pc = "deleteOne"
    /\ projects' = [q \in DOMAIN projects \ {inflight[r].project} |-> projects[q]]
    /\ inflight' = [inflight EXCEPT ![r].pc = "done"]
    /\ res' = Response("deleteProject", inflight[r].user, inflight[r].project, Undefined, 200)
    /\ UNCHANGED <<users, usedProjects, tasks, taskSeq, subSeq, comments, commentSeq, now>>

\* deleteProject stopped after Task.deleteMany and before project.deleteOne: a
\* store error thrown by deleteOne is caught and answered 500; a crash of the
\* process leaves the same store
DeleteProjectCrash(r) ==
    /\ r \in DOMAIN inflight
    /\ inflight[r].op = "deleteProject" /\ inflight[r].pc = "deleteOne"
    /\ inflight' = [inflight EXCEPT ![r].pc = "crashed"]
    /\ res' = Response("deleteProject", inflight[r].user, inflight[r].project, Undefined, 500)
    /\ UNCHANGED <<users, projects, usedProjects, tasks, taskSeq, subSeq, comments, commentSeq, now>>

\* createTask up to its first await: Project.findById, then the 404 and 403 returns
CreateTaskFind(user, p) ==
    /\ Len(inflight) < MaxRequests
    /\ IF p \notin DOMAIN projects
       THEN /\ inflight' = Append(inflight, Request("createTask", user, p, "done", <<>>))
            /\ res' = TaskResponse("createTask", user, p, 0, Undefined, Undefined, 404)
       ELSE IF ~isMember(FindProject(p), user)
       THEN /\ inflight' = Append(inflight, Request("createTask", user, p, "done", <<>>))
            /\ res' = TaskResponse("createTask", user, p, 0, Undefined, Undefined, 403)
       ELSE /\ inflight' = Append(inflight, Request("createTask", user, p, "findOne", <<>>))
            /\ UNCHANGED res
    /\ UNCHANGED <<users, projects, usedProjects, tasks, taskSeq, subSeq, comments, commentSeq, now>>

\* createTask: await Task.findOne({project, status: 'todo'}).sort({order: -1}), kept
\* as the order the new task will get
CreateTaskOrder(r) ==
    /\ r \in DOMAIN inflight
    /\ inflight[r].op = "createTask" /\ inflight[r].pc = "findOne"
    /\ inflight' = [inflight EXCEPT ![r].pc = "create",
                                    ![r].highestOrder = <<NextOrder(inflight[r].project, "todo")>>]
    /\ UNCHANGED <<users, projects, usedProjects, tasks, taskSeq, subSeq, comments, commentSeq, now, res>>

\* createTask: await Task.create({...}), then the 201 response
CreateTaskSave(r) ==
    /\ r \in DOMAIN inflight
    /\ inflight[r].op = "createTask" /\ inflight[r].pc = "create"
    /\ LET doc == [project     |-> inflight[r].project,
                   creator     |-> inflight[r].user,
                   status      |-> "todo",
                   priority    |-> "medium",
                   order       |-> inflight[r].highestOrder[1],
                   assignee    |-> Undefined,
                   dueDate     |-> NoDate,
                   watchers    |-> <<inflight[r].user>>,
                   subtasks    |-> <<>>,
                   isArchived  |-> FALSE,
                   completedAt |-> NoDate]
       IN  tasks' = tasks @@ ((taskSeq + 1) :> TaskPreSave(doc, TRUE))
    /\ taskSeq' = taskSeq + 1
    /\ inflight' = [inflight EXCEPT ![r].pc = "done"]
    /\ res' = TaskResponse("createTask", inflight[r].user, inflight[r].project, taskSeq + 1,
                           Undefined, Undefined, 201)
    /\ UNCHANGED <<users, projects, usedProjects, subSeq, comments, commentSeq, now>>

\* A toggleSubtask request in flight: its locals are the task id, the subtask id
\* and the subtask as changed in memory (<<>> before the read and after a 404).
ToggleRequest(user, t, subtaskId, pc, subtask) ==
    [op |-> "toggleSubtask", user |-> user, project |-> NoProject, pc |-> pc,
     highestOrder |-> <<>>, task |-> t, subtaskId |-> subtaskId, subtask |-> subtask]

\* toggleSubtask up to its save: await Task.findById, the 404 returns, and the
\* change of the subtask found, made in memory on the document just read
ToggleSubtaskFind(user, t, subtaskId) ==
    /\ Len(inflight) < MaxRequests
    /\ IF t \notin DOMAIN tasks
       THEN /\ inflight' = Append(inflight, ToggleRequest(user, t, subtaskId, "done", <<>>))
            /\ res' = TaskResponse("toggleSubtask", user, NoProject, t, Undefined, Undefined, 404)
                      @@ [subtask |-> subtaskId]
       ELSE IF SubtaskIndex(tasks[t], subtaskId) = 0
       THEN /\ inflight' = Append(inflight, ToggleRequest(user, t, subtaskId, "done", <<>>))
            /\ res' = TaskResponse("toggleSubtask", user, tasks[t].project, t, Undefined,
                                   Undefined, 404) @@ [subtask |-> subtaskId]
       ELSE LET k == SubtaskIndex(tasks[t], subtaskId)
            IN  /\ inflight' = Append(inflight, ToggleRequest(user, t, subtaskId, "save",
                                                              <<Toggle(tasks[t].subtasks[k])>>))
                /\ UNCHANGED res
    /\ UNCHANGED <<users, projects, usedProjects, tasks, taskSeq, subSeq, comments, commentSeq, now>>

\* A save that negates the value stored at the time of the write.
ToggleSubtaskSaveStored(r) ==
    /\ r \in DOMAIN inflight
    /\ inflight[r].op = "toggleSubtask" /\ inflight[r].pc = "save"
    /\ LET t == inflight[r].task
           k == SubtaskIndex(tasks[t], inflight[r].subtaskId)
       IN  /\ tasks' = [tasks EXCEPT ![t].subtasks[k] = Toggle(@)]
           /\ res' = TaskResponse("toggleSubtask", inflight[r].user, tasks[t].project, t,
                                  Undefined, Undefined, 200)
                     @@ [subtask |-> inflight[r].subtaskId, written |-> inflight[r].subtask[1]]
    /\ inflight' = [inflight EXCEPT ![r].pc = "done"]
    /\ UNCHANGED <<users, projects, usedProjects, taskSeq, subSeq, comments, commentSeq, now>>

\* toggleSubtask: await task.save() writes the subtask as changed in memory, then
\* the 200 response with the subtasks of the in-memory document
ToggleSubtaskSave(r) ==
    /\ r \in DOMAIN inflight
    /\ inflight[r].op = "toggleSubtask" /\ inflight[r].pc = "save"
    /\ LET t == inflight[r].task
           k == SubtaskIndex(tasks[t], inflight[r].subtaskId)
       IN  /\ tasks' = [tasks EXCEPT ![t].subtasks[k] = inflight[r].subtask[1]]
           /\ res' = TaskResponse("toggleSubtask", inflight[r].user, tasks[t].project, t,
                                  Undefined, Undefined, 200)
                     @@ [subtask |-> inflight[r].subtaskId, written |-> inflight[r].subtask[1]]
    /\ inflight' = [inflight EXCEPT ![r].pc = "done"]
    /\ UNCHANGED <<users, projects, usedProjects, taskSeq, subSeq, comments, commentSeq, now>>

----------------------------------------------------------------------------
(* Query / filter layer *)

\* .sort({createdAt: -1}) over a set of ids: ids are handed out in creation
\* order, so the newest document has the largest id.
RECURSIVE SortDesc(_)
SortDesc(S) ==
    IF S = {} THEN <<>>
    ELSE LET m == CHOOSE x \in S : \A y \in S : y <= x
         IN  <<m>> \o SortDesc(S \ {m})

\* Math.ceil(total / limitNum) for total >= 0 and limitNum >= 1
Ceil(total, limitNum) ==
    IF total % limitNum = 0 THEN total \div limitNum ELSE (total \div limitNum) + 1

\* .skip((pageNum - 1) * limitNum).limit(limitNum)
SkipLimit(items, pageNum, limitNum) ==
    LET skip == (pageNum - 1) * limitNum
    IN  SubSeq(items, skip + 1, IF skip + limitNum < Len(items) THEN skip + limitNum ELSE Len(items))

\* getTasks: Task.find({isArchived: false, project}).sort({createdAt: -1}) over the
\* collection store; the project filter is Undefined when not sent
TaskQuery(store, project) ==
    SortDesc({t \in DOMAIN store :
                 /\ ~store[t].isArchived
                 /\ (project # Undefined => store[t].project = project)})

\* The pagination block with hasNext and hasPrev (getTasks, getProjects, getUsers).
Pagination(pageNum, limitNum, total) ==
    [current |-> pageNum,
     pages   |-> Ceil(total, limitNum),
     total   |-> total,
     limit   |-> limitNum,
     hasNext |-> pageNum * limitNum < total,
     hasPrev |-> pageNum > 1]

\* exports.getTasks with the project filter, default sort (createdAt desc)
GetTasks(user, project, page, limit) ==
    /\ res' = Response("getTasks", user, project, Undefined, 200) @@
               [items      |-> SkipLimit(TaskQuery(tasks, project), page, limit),
                pagination |-> Pagination(page, limit, Len(TaskQuery(tasks, project)))]
    /\ UNCHANGED <<users, projects, usedProjects, tasks, taskSeq, subSeq, comments, commentSeq,
                   inflight, now>>

\* .sort({createdAt: 1}) over a set of ids (see SortDesc).
RECURSIVE SortAsc(_)
SortAsc(S) ==
    IF S = {} THEN <<>>
    ELSE LET m == CHOOSE x \in S : \A y \in S : x <= y
         IN  <<m>> \o SortAsc(S \ {m})

\* Ticks of the clock in one calendar day.
TicksPerDay == 2

\* new Date(date.setHours(0, 0, 0, 0)): the first instant of the day of instant d.
StartOfDay(d) == d - (d % TicksPerDay)

\* new Date(date.setHours(23, 59, 59, 999)): the last instant of the day of instant d.
EndOfDay(d) == StartOfDay(d) + (TicksPerDay - 1)

\* Conditions of a mongo query on one field.
AnyValue == [op |-> "any"]

\* req.query of getTasks with nothing sent; status is the list status.split(',')
\* gives, <<>> when no status is sent, dueDate is NoDate when not sent.
NoFilters ==
    [project |-> Undefined, status |-> <<>>, priority |-> Undefined,
     assignee |-> Undefined, dueDate |-> NoDate, overdue |-> Undefined]

\* getTasks: the query object built from req.query by the successive ifs; the
\* overdue branch assigns query.dueDate and query.status last.
BuildQuery(user, q) ==
    LET query == [isArchived |-> FALSE,
                  project    |-> IF q.project = Undefined THEN AnyValue
                                 ELSE [op |-> "eq", value |-> q.project],
                  status     |-> IF q.status = <<>> THEN AnyValue
                                 ELSE [op |-> "in", value |-> {q.status[i] : i \in 1..Len(q.status)}],
                  priority   |-> IF q.priority = Undefined THEN AnyValue
                                 ELSE [op |-> "eq", value |-> q.priority],
                  assignee   |-> IF q.assignee = Undefined THEN AnyValue
                                 ELSE IF q.assignee = "me" THEN [op |-> "eq", value |-> user]
                                 ELSE IF q.assignee = "unassigned" THEN [op |-> "eq", value |-> Undefined]
                                 ELSE [op |-> "eq", value |-> q.assignee],
                  dueDate    |-> IF q.dueDate = NoDate THEN AnyValue
                                 ELSE [op |-> "range", gte |-> StartOfDay(q.dueDate[1]),
                                       lt |-> EndOfDay(q.dueDate[1])]]
    IN  IF q.overdue = "true"
        THEN [query EXCEPT !.dueDate = [op |-> "lt", value |-> now],
                           !.status  = [op |-> "ne", value |-> "completed"]]
        ELSE query

\* Whether a stored value meets a condition of a query; a date condition is met
\* only by a document that has the date.
Meets(value, cond) ==
    CASE cond.op = "any"   -> TRUE
      [] cond.op = "eq"    -> value = cond.value
      [] cond.op = "ne"    -> value # cond.value
      [] cond.op = "in"    -> value \in cond.value
      [] cond.op = "lt"    -> value # NoDate /\ value[1] < cond.value
      [] cond.op = "range" -> value # NoDate /\ cond.gte <= value[1] /\ value[1] < cond.lt

\* Task.find(query).sort({createdAt: -1}) over the collection store
FindTasks(store, query) ==
    SortDesc({t \in DOMAIN store :
                 /\ store[t].isArchived = query.isArchived
                 /\ Meets(store[t].project, query.project)
                 /\ Meets(store[t].status, query.status)
                 /\ Meets(store[t].priority, query.priority)
                 /\ Meets(store[t].assignee, query.assignee)
                 /\ Meets(store[t].dueDate, query.dueDate)})

\* exports.getTasks with every filter of req.query, default sort (createdAt desc)
GetTasksFiltered(user, q, page, limit) ==
    /\ res' = Response("getTasks", user, q.project, Undefined, 200) @@
               [filters    |-> q,
                items      |-> SkipLimit(FindTasks(tasks, BuildQuery(user, q)), page, limit),
                pagination |-> Pagination(page, limit, Len(FindTasks(tasks, BuildQuery(user, q))))]
    /\ UNCHANGED <<users, projects, usedProjects, tasks, taskSeq, subSeq, comments, commentSeq,
                   inflight, now>>

----------------------------------------------------------------------------
(* Comment controller *)

CommentResponse(op, user, c, code) ==
    Response(op, user, NoProject, Undefined, code) @@ [comment |-> c]

\* CommentSchema.pre('save')
CommentPreSave(doc, contentModified, isNew) ==
    IF contentModified /\ ~isNew
    THEN [doc EXCEPT !.isEdited = TRUE, !.editedAt = Date(now)]
    ELSE doc

\* exports.createComment; parentCommentId is NoComment when not sent
CreateComment(user, content, taskId, parentCommentId) ==
    /\ IF taskId \notin DOMAIN tasks
       THEN /\ res' = CommentResponse("createComment", user, NoComment, 404)
            /\ UNCHANGED <<comments, commentSeq>>
       ELSE IF parentCommentId # NoComment /\ parentCommentId \notin DOMAIN comments
       THEN /\ res' = CommentResponse("createComment", user, NoComment, 404)
            /\ UNCHANGED <<comments, commentSeq>>
       ELSE LET doc == [content       |-> content,
                        task          |-> taskId,
                        author        |-> user,
                        parentComment |-> parentCommentId,
                        isEdited      |-> FALSE,
                        editedAt      |-> NoDate,
                        reactions     |-> <<>>,
                        isDeleted     |-> FALSE]
            IN  /\ comments' = comments @@ ((commentSeq + 1) :> CommentPreSave(doc, TRUE, TRUE))
                /\ commentSeq' = commentSeq + 1
                /\ res' = CommentResponse("createComment", user, commentSeq + 1, 201)
    /\ UNCHANGED <<users, projects, usedProjects, tasks, taskSeq, subSeq, inflight, now>>

\* updateComment's check with the global admin let in.
UpdateCommentAllowedOrAdmin(comment, user) ==
    comment.author = user \/ UserRole[user] = "admin"

\* updateComment: only the author
UpdateCommentAllowed(comment, user) ==
    comment.author = user

\* exports.updateComment
UpdateComment(user, c, content) ==
    /\ IF c \notin DOMAIN comments
       THEN /\ res' = CommentResponse("updateComment", user, c, 404)
            /\ UNCHANGED comments
       ELSE IF ~UpdateCommentAllowed(comments[c], user)
       THEN /\ res' = CommentResponse("updateComment", user, c, 403)
            /\ UNCHANGED comments
       ELSE LET doc == [comments[c] EXCEPT !.content  = content,
                                           !.isEdited = TRUE,
                                           !.editedAt = Date(now)]
            IN  /\ comments' = [comments EXCEPT ![c] =
                                   CommentPreSave(doc, content # comments[c].content, FALSE)]
                /\ res' = CommentResponse("updateComment", user, c, 200)
    /\ UNCHANGED <<users, projects, usedProjects, tasks, taskSeq, subSeq, commentSeq, inflight, now>>

\* deleteComment's check without the global admin.
DeleteCommentAllowedAuthorOnly(comment, user) ==
    comment.author = user

\* deleteComment: author or global admin
DeleteCommentAllowed(comment, user) ==
    comment.author = user \/ UserRole[user] = "admin"

\* exports.deleteComment (soft delete)
DeleteComment(user, c) ==
    /\ IF c \notin DOMAIN comments
       THEN /\ res' = CommentResponse("deleteComment", user, c, 404)
            /\ UNCHANGED comments
       ELSE IF ~DeleteCommentAllowed(comments[c], user)
       THEN /\ res' = CommentResponse("deleteComment", user, c, 403)
            /\ UNCHANGED comments
       ELSE LET doc == [comments[c] EXCEPT !.isDeleted = TRUE, !.content = Tombstone]
            IN  /\ comments' = [comments EXCEPT ![c] =
                                   CommentPreSave(doc, comments[c].content # Tombstone, FALSE)]
                /\ res' = CommentResponse("deleteComment", user, c, 200)
    /\ UNCHANGED <<users, projects, usedProjects, tasks, taskSeq, subSeq, commentSeq, inflight, now>>

\* The upsert that pushes a new entry whether or not the user has one.
UpsertAlwaysPush(reactions, user, type) ==
    Append(reactions, [user |-> user, type |-> type])

\* addReaction: reactions.find by user, then existingReaction.type = type, or push
Upsert(reactions, user, type) ==
    IF \E i \in 1..Len(reactions) : reactions[i].user = user
    THEN LET k == CHOOSE i \in 1..Len(reactions) :
                     /\ reactions[i].user = user
                     /\ \A j \in 1..(i - 1) : reactions[j].user # user
         IN  [reactions EXCEPT ![k].type = type]
    ELSE Append(reactions, [user |-> user, type |-> type])

\* exports.addReaction
AddReaction(user, c, type) ==
    /\ IF c \notin DOMAIN comments
       THEN /\ res' = CommentResponse("addReaction", user, c, 404)
            /\ UNCHANGED comments
       ELSE LET doc == [comments[c] EXCEPT !.reactions = Upsert(@, user, type)]
            IN  /\ comments' = [comments EXCEPT ![c] = CommentPreSave(doc, FALSE, FALSE)]
                /\ res' = CommentResponse("addReaction", user, c, 200)
    /\ UNCHANGED <<users, projects, usedProjects, tasks, taskSeq, subSeq, commentSeq, inflight, now>>

\* exports.removeReaction
RemoveReaction(user, c) ==
    /\ IF c \notin DOMAIN comments
       THEN /\ res' = CommentResponse("removeReaction", user, c, 404)
            /\ UNCHANGED comments
       ELSE LET doc == [comments[c] EXCEPT !.reactions = SelectSeq(@, LAMBDA r : r.user # user)]
            IN  /\ comments' = [comments EXCEPT ![c] = CommentPreSave(doc, FALSE, FALSE)]
                /\ res' = CommentResponse("removeReaction", user, c, 200)
    /\ UNCHANGED <<users, projects, usedProjects, tasks, taskSeq, subSeq, commentSeq, inflight, now>>

\* getComments: Comment.find({task, isDeleted: false, parentComment: null})
\* .sort({createdAt: -1}) over the collection store
CommentQuery(store, taskId) ==
    SortDesc({c \in DOMAIN store :
                 /\ store[c].task = taskId
                 /\ ~store[c].isDeleted
                 /\ store[c].parentComment = NoComment})

\* .populate({path: 'replies', match: {isDeleted: false}, options: {sort: {createdAt: 1}}})
Replies(store, c) ==
    SortAsc({r \in DOMAIN store : store[r].parentComment = c /\ ~store[r].isDeleted})

\* exports.getComments; its pagination block has no hasNext and no hasPrev
GetComments(user, taskId, page, limit) ==
    /\ res' = IF taskId \notin DOMAIN tasks
              THEN CommentResponse("getComments", user, NoComment, 404)
              ELSE LET found == SkipLimit(CommentQuery(comments, taskId), page, limit)
                   IN  [CommentResponse("getComments", user, NoComment, 200)
                           EXCEPT !.task = taskId] @@
                       [items      |-> [i \in 1..Len(found) |->
                                          [_id |-> found[i], replies |-> Replies(comments, found[i])]],
                        pagination |-> [current |-> page,
                                        pages   |-> Ceil(Len(CommentQuery(comments, taskId)), limit),
                                        total   |-> Len(CommentQuery(comments, taskId)),
                                        limit   |-> limit]]
    /\ UNCHANGED <<users, projects, usedProjects, tasks, taskSeq, subSeq, comments, commentSeq,
                   inflight, now>>

\* The wall clock read by new Date().
Tick ==
    /\ now < MaxClock
    /\ now' = now + 1
    /\ UNCHANGED <<users, projects, usedProjects, tasks, taskSeq, res, subSeq, comments, commentSeq, inflight>>

\* An addReaction request in flight: its locals are the comment id, the type, the
\* reactions as read, and the change made to them in memory: a push, or the type
\* of the element at an index set (<<>> after a 404).
ReactionRequest(user, c, type, pc, reactions, change) ==
    [op |-> "addReaction", user |-> user, project |-> NoProject, pc |-> pc,
     highestOrder |-> <<>>, comment |-> c, type |-> type, reactions |-> reactions,
     change |-> change]

\* addReaction up to its save: await Comment.findById, the 404 return, then
\* reactions.find and existingReaction.type = type or reactions.push, in memory
AddReactionFind(user, c, type) ==
    /\ Len(inflight) < MaxRequests
    /\ IF c \notin DOMAIN comments
       THEN /\ inflight' = Append(inflight, ReactionRequest(user, c, type, "done", <<>>, <<>>))
            /\ res' = CommentResponse("addReaction", user, c, 404)
       ELSE LET old == comments[c].reactions
                has == \E i \in 1..Len(old) : old[i].user = user
                k   == CHOOSE i \in 1..Len(old) :
                          /\ old[i].user = user
                          /\ \A j \in 1..(i - 1) : old[j].user # user
            IN  /\ inflight' = Append(inflight,
                      ReactionRequest(user, c, type, "save", old,
                                      IF has THEN <<[kind |-> "set", index |-> k]>>
                                      ELSE <<[kind |-> "push"]>>))
                /\ UNCHANGED res
    /\ UNCHANGED <<users, projects, usedProjects, tasks, taskSeq, subSeq, comments, commentSeq, now>>

\* addReaction: await comment.save(), then the 200 response.  The save sends the
\* changes made to the document: a pushed element is appended to the stored
\* array; an element set by position is written only when the array is as it was
\* read (the document version, which every push increments), else the save fails
\* and the catch answers 500.
AddReactionSave(r) ==
    /\ r \in DOMAIN inflight
    /\ inflight[r].op = "addReaction" /\ inflight[r].pc = "save"
    /\ LET c      == inflight[r].comment
           entry  == [user |-> inflight[r].user, type |-> inflight[r].type]
           change == inflight[r].change[1]
           stored == comments[c].reactions
       IN  IF change.kind = "push"
           THEN /\ comments' = [comments EXCEPT ![c].reactions = Append(stored, entry)]
                /\ res' = CommentResponse("addReaction", inflight[r].user, c, 200)
           ELSE IF Len(stored) = Len(inflight[r].reactions)
           THEN /\ comments' = [comments EXCEPT ![c].reactions[change.index].type = inflight[r].type]
                /\ res' = CommentResponse("addReaction", inflight[r].user, c, 200)
           ELSE /\ UNCHANGED comments
                /\ res' = CommentResponse("addReaction", inflight[r].user, c, 500)
    /\ inflight' = [inflight EXCEPT ![r].pc = "done"]
    /\ UNCHANGED <<users, projects, usedProjects, tasks, taskSeq, subSeq, commentSeq, now>>

----------------------------------------------------------------------------
(* Authentication middleware, user controller and login *)

\* A user id (and login email) no stored user has.
UnknownUser == "u9"

\* protect with a token of any user, active or not.
ProtectAnyUser(user) ==
    user \in DOMAIN users

\* protect: the token names a stored user and that user is active
Protect(user) ==
    user \in DOMAIN users /\ users[user].isActive

\* authorize(...roles)
Authorize(user, roles) ==
    UserRole[user] \in roles

\* A route behind protect: the handler runs when protect calls next(), otherwise
\* the request is answered 401 and nothing is touched.
Protected(user, op, handler) ==
    IF Protect(user)
    THEN handler
    ELSE /\ res' = Response(op, user, NoProject, Undefined, 401)
         /\ UNCHANGED <<users, projects, usedProjects, tasks, taskSeq, subSeq, comments,
                        commentSeq, inflight, now>>

\* exports.getMe
GetMe(user) ==
    /\ res' = Response("getMe", user, NoProject, user, 200)
    /\ UNCHANGED <<users, projects, usedProjects, tasks, taskSeq, subSeq, comments, commentSeq,
                   inflight, now>>

\* exports.updateUser behind authorize('admin'); body.isActive is <<>> when not sent
UpdateUser(user, id, isActive) ==
    /\ IF ~Authorize(user, {"admin"})
       THEN /\ res' = Response("updateUser", user, NoProject, id, 403)
            /\ UNCHANGED users
       ELSE IF id \notin DOMAIN users
       THEN /\ res' = Response("updateUser", user, NoProject, id, 404)
            /\ UNCHANGED users
       ELSE /\ users' = [users EXCEPT ![id].isActive = IF isActive = <<>> THEN @ ELSE isActive[1]]
            /\ res' = Response("updateUser", user, NoProject, id, 200)
    /\ UNCHANGED <<projects, usedProjects, tasks, taskSeq, subSeq, comments, commentSeq,
                   inflight, now>>

\* exports.deleteUser behind authorize('admin')
DeleteUser(user, id) ==
    /\ IF ~Authorize(user, {"admin"})
       THEN /\ res' = Response("deleteUser", user, NoProject, id, 403)
            /\ UNCHANGED users
       ELSE IF id = user
       THEN /\ res' = Response("deleteUser", user, NoProject, id, 400)
            /\ UNCHANGED users
       ELSE IF id \notin DOMAIN users
       THEN /\ res' = Response("deleteUser", user, NoProject, id, 404)
            /\ UNCHANGED users
       ELSE /\ users' = [users EXCEPT ![id].isActive = FALSE]
            /\ res' = Response("deleteUser", user, NoProject, id, 200)
    /\ UNCHANGED <<projects, usedProjects, tasks, taskSeq, subSeq, comments, commentSeq,
                   inflight, now>>

\* exports.login with an email and a password that matches or not; no token is sent
Login(email, isMatch) ==
    /\ res' = IF email \notin DOMAIN users
              THEN Response("login", email, NoProject, Undefined, 401)
              ELSE IF ~users[email].isActive
              THEN Response("login", email, NoProject, Undefined, 401)
              ELSE IF ~isMatch
              THEN Response("login", email, NoProject, Undefined, 401)
              ELSE Response("login", email, NoProject, Undefined, 200)
    /\ UNCHANGED <<users, projects, usedProjects, tasks, taskSeq, subSeq, comments, commentSeq,
                   inflight, now>>

----------------------------------------------------------------------------
(* Updates from a request body: only the allowed fields reach the document *)

\* updateProject's allowedFields with owner among them.
ProjectAllowedFieldsWithOwner ==
    {"name", "description", "status", "priority", "startDate", "dueDate", "tags", "color",
     "budget", "isPublic", "isArchived", "owner"}

\* updateProject: allowedFields
ProjectAllowedFields ==
    {"name", "description", "status", "priority", "startDate", "dueDate", "tags", "color",
     "budget", "isPublic", "isArchived"}

\* updateTask: allowedFields
TaskAllowedFields ==
    {"title", "description", "status", "priority", "assignee", "startDate", "dueDate",
     "estimatedHours", "actualHours", "tags", "order", "isArchived"}

\* allowedFields.forEach(field => { if (req.body[field] !== undefined)
\* updateData[field] = req.body[field] })
UpdateData(body, allowedFields) ==
    [f \in DOMAIN body \cap allowedFields |-> body[f]]

\* findByIdAndUpdate(id, updateData): the fields of updateData replace those of
\* the document (of the fields the document holds here).
ApplyUpdate(doc, updateData) ==
    [f \in DOMAIN doc |-> IF f \in DOMAIN updateData THEN updateData[f] ELSE doc[f]]

\* exports.updateProject with any request body
UpdateProjectFields(user, p, body) ==
    /\ IF p \notin DOMAIN projects
       THEN /\ res' = Response("updateProject", user, p, Undefined, 404) @@ [body |-> body]
            /\ UNCHANGED projects
       ELSE IF ~UpdateAllowed(FindProject(p), user)
       THEN /\ res' = Response("updateProject", user, p, Undefined, 403) @@ [body |-> body]
            /\ UNCHANGED projects
       ELSE /\ projects' = [projects EXCEPT
                              ![p] = ApplyUpdate(@, UpdateData(body, ProjectAllowedFields))]
            /\ res' = Response("updateProject", user, p, Undefined, 200) @@ [body |-> body]
    /\ UNCHANGED <<users, usedProjects, tasks, taskSeq, now, subSeq, comments, commentSeq, inflight>>

\* exports.updateTask with any request body
UpdateTaskFields(user, t, body) ==
    /\ IF t \notin DOMAIN tasks
       THEN /\ res' = TaskResponse("updateTask", user, NoProject, t, Undefined, Undefined, 404)
                      @@ [body |-> body]
            /\ UNCHANGED tasks
       ELSE /\ tasks' = [tasks EXCEPT ![t] = ApplyUpdate(@, UpdateData(body, TaskAllowedFields))]
            /\ res' = TaskResponse("updateTask", user, tasks[t].project, t, Undefined,
                                   Undefined, 200) @@ [body |-> body]
    /\ UNCHANGED <<users, projects, usedProjects, taskSeq, now, subSeq, comments, commentSeq, inflight>>

----------------------------------------------------------------------------
(* Specifications *)

\* The membership authority: every project request on one project, with task
\* creation and the two project views.
\* Requests name project p1, which is missing before it is created and after it
\* is deleted.
Next ==
    \/ \E u \in Users, m \in MemberLists, pub \in BOOLEAN : CreateProject("p1", u, m, pub)
    \/ \E u \in Users, pub \in {<<>>, <<TRUE>>, <<FALSE>>} : UpdateProject(u, "p1", pub)
    \/ \E u \in Users : DeleteProject(u, "p1")
    \/ \E u \in Users, x \in Users, r \in RoleInputs : AddMember(u, "p1", x, r)
    \/ \E u \in Users, x \in Users : RemoveMember(u, "p1", x)
    \/ \E u \in Users : GetProject(u, "p1")
    \/ \E u \in Users : GetTasksByProject(u, "p1")
    \/ \E u \in Users :
          taskSeq < MaxBoardTasks /\ CreateTask(u, "p1", Undefined, Undefined)

Spec == Init /\ [][Next]_vars

\* Column ordering: tasks created in the todo and completed columns of two
\* projects and moved between them by drag and drop.
NextColumn ==
    \/ \E id \in ProjectIds : CreateProject(id, "u2", <<>>, FALSE)
    \/ \E u \in Users, p \in ProjectIds, st \in {Undefined, "completed"},
          pr \in {Undefined, "high"} :
          taskSeq < MaxTasks /\ CreateTask(u, p, st, pr)
    \/ \E t \in 1..MaxTasks, st \in {"todo", "completed"},
          o \in {<<>>} \cup {<<n>> : n \in 0..MaxOrder} : UpdateTaskStatus("u2", t, st, o)

SpecOrder == Init /\ [][NextColumn]_vars

\* The task lifecycle: a task of one project created, updated (PUT) and moved
\* (PATCH) while the clock advances.
NextTask ==
    \/ CreateProject("p1", "u2", <<>>, FALSE)
    \/ \E st \in TaskStatuses \cup {Undefined} :
          taskSeq < MaxLifecycleTasks /\ CreateTask("u2", "p1", st, Undefined)
    \/ \E t \in 1..MaxLifecycleTasks, st \in TaskStatuses \cup {Undefined} :
          UpdateTask("u2", t, st, <<>>)
    \/ \E t \in 1..MaxLifecycleTasks, st \in TaskStatuses :
          UpdateTaskStatus("u2", t, st, <<>>)
    \/ Tick

SpecTask == Init /\ [][NextTask]_vars

\* The project lifecycle: projects created with a status and moved between
\* statuses while the clock advances.
NextProject ==
    \/ \E id \in ProjectIds, st \in ProjectStatuses \cup {Undefined} :
          CreateProjectStatus(id, "u2", <<>>, FALSE, st)
    \/ \E p \in ProjectIds, st \in ProjectStatuses \cup {Undefined} :
          UpdateProjectStatus("u2", p, <<>>, st)
    \/ Tick

SpecProject == Init /\ [][NextProject]_vars

\* The cascade: tasks of two projects created, archived and listed while the
\* projects are deleted.
NextCascade ==
    \/ \E id \in ProjectIds : CreateProject(id, "u2", <<>>, FALSE)
    \/ \E p \in ProjectIds :
          taskSeq < MaxCascadeTasks /\ CreateTask("u2", p, Undefined, Undefined)
    \/ \E t \in 1..MaxCascadeTasks : UpdateTaskBody("u2", t, Undefined, <<>>, <<TRUE>>)
    \/ \E u \in Users, p \in ProjectIds : DeleteProject(u, p)
    \/ \E p \in ProjectIds : GetTasks("u2", p, 1, DefaultLimit)

SpecCascade == Init /\ [][NextCascade]_vars

\* Interleaving: deleteProject and createTask requests on one project, each
\* advancing one store access at a time.
NextRace ==
    \/ CreateProject("p1", "u2", <<>>, FALSE)
    \/ \E u \in Users : DeleteProjectFind(u, "p1")
    \/ \E r \in 1..MaxRequests : DeleteProjectTasks(r)
    \/ \E r \in 1..MaxRequests : DeleteProjectDoc(r)
    \/ \E u \in Users : CreateTaskFind(u, "p1")
    \/ \E r \in 1..MaxRequests : CreateTaskOrder(r)
    \/ \E r \in 1..MaxRequests : CreateTaskSave(r)

SpecRace == Init /\ [][NextRace]_vars

\* Subtasks: subtasks added to the tasks of one project and toggled, by existing
\* and by unknown task and subtask ids, while the clock advances.
NextSubtask ==
    \/ CreateProject("p1", "u2", <<>>, FALSE)
    \/ taskSeq < MaxLifecycleTasks /\ CreateTask("u2", "p1", Undefined, Undefined)
    \/ \E t \in 1..(MaxLifecycleTasks + 1) : subSeq < MaxSubtasks /\ AddSubtask("u2", t)
    \/ \E t \in 1..(MaxLifecycleTasks + 1), sid \in 1..(MaxSubtasks + 1) :
          ToggleSubtask("u2", t, sid)
    \/ Tick

SpecSubtask == Init /\ [][NextSubtask]_vars

\* Reactions: both users add and remove reactions on the comments of one task.
NextReaction ==
    \/ CreateProject("p1", "u2", <<>>, FALSE)
    \/ taskSeq = 0 /\ CreateTask("u2", "p1", Undefined, Undefined)
    \/ commentSeq < MaxComments /\ CreateComment("u2", "first", 1, NoComment)
    \/ \E u \in Users, c \in 1..(MaxComments + 1), ty \in ReactionInputs : AddReaction(u, c, ty)
    \/ \E u \in Users, c \in 1..(MaxComments + 1) : RemoveReaction(u, c)

SpecReaction == Init /\ [][NextReaction]_vars

\* Comment moderation: the comments of one task written, edited and soft-deleted
\* by both users.
NextComment ==
    \/ CreateProject("p1", "u2", <<>>, FALSE)
    \/ taskSeq = 0 /\ CreateTask("u2", "p1", Undefined, Undefined)
    \/ \E u \in Users : commentSeq < MaxComments /\ CreateComment(u, "first", 1, NoComment)
    \/ \E u \in Users, c \in 1..(MaxComments + 1) : UpdateComment(u, c, "second")
    \/ \E u \in Users, c \in 1..(MaxComments + 1) : DeleteComment(u, c)

SpecComment == Init /\ [][NextComment]_vars

\* Comment threads: comments and replies of one task written, soft-deleted and
\* listed.
NextThread ==
    \/ CreateProject("p1", "u2", <<>>, FALSE)
    \/ taskSeq = 0 /\ CreateTask("u2", "p1", Undefined, Undefined)
    \/ \E u \in Users, parent \in 0..MaxComments :
          commentSeq < MaxComments /\ CreateComment(u, "first", 1, parent)
    \/ \E u \in Users, c \in 1..MaxComments : DeleteComment(u, c)
    \/ GetComments("u2", 1, 1, DefaultLimit)

SpecThread == Init /\ [][NextThread]_vars

\* Listings: the tasks of a project and the comments of a task listed page by
\* page, for every page number and limit, while tasks and comments are added.
NextList ==
    \/ CreateProject("p1", "u2", <<>>, FALSE)
    \/ taskSeq < MaxTasks /\ CreateTask("u2", "p1", Undefined, Undefined)
    \/ \E parent \in 0..MaxComments :
          commentSeq < MaxComments /\ CreateComment("u2", "first", 1, parent)
    \/ \E page \in 1..MaxPage, limit \in 1..MaxLimit : GetTasks("u2", "p1", page, limit)
    \/ \E page \in 1..MaxPage, limit \in 1..MaxLimit : GetComments("u2", 1, page, limit)

SpecList == Init /\ [][NextList]_vars
\* Task mutations by a stranger: u1 owns a private project without members, and
\* both users send every mutating task request to its tasks.
NextGuard ==
    \/ CreateProject("p1", "u1", <<>>, FALSE)
    \/ \E u \in Users : taskSeq < MaxLifecycleTasks /\ CreateTask(u, "p1", Undefined, Undefined)
    \/ \E u \in Users, t \in 1..MaxLifecycleTasks : UpdateTask(u, t, "in-progress", <<>>)
    \/ \E u \in Users, t \in 1..MaxLifecycleTasks : DeleteTask(u, t)
    \/ \E u \in Users, t \in 1..MaxLifecycleTasks : subSeq < MaxSubtasks /\ AddSubtask(u, t)
    \/ \E u \in Users, t \in 1..MaxLifecycleTasks, sid \in 1..MaxSubtasks :
          ToggleSubtask(u, t, sid)
    \/ \E u \in Users, t \in 1..MaxLifecycleTasks, sid \in 1..MaxSubtasks :
          DeleteSubtask(u, t, sid)

SpecGuard == Init /\ [][NextGuard]_vars
\* The Kanban board: tasks of one project created, moved between two columns,
\* archived and viewed.
NextBoard ==
    \/ CreateProject("p1", "u2", <<>>, FALSE)
    \/ taskSeq < MaxTasks /\ CreateTask("u2", "p1", Undefined, Undefined)
    \/ \E t \in 1..MaxTasks, st \in {"todo", "in-progress"} : UpdateTaskStatus("u2", t, st, <<>>)
    \/ \E t \in 1..MaxTasks : UpdateTaskBody("u2", t, Undefined, <<>>, <<TRUE>>)
    \/ GetTasksByProject("u2", "p1")

SpecBoard == Init /\ [][NextBoard]_vars
\* Filtered listings: tasks of one project created with a status, an assignee and
\* a due date, and listed under combinations of the filters while the clock
\* advances.
FilterInputs ==
    {[NoFilters EXCEPT !.status = st, !.assignee = a, !.dueDate = d, !.overdue = o] :
        st \in {<<>>, <<"completed">>, <<"todo", "in-progress">>},
        a  \in {Undefined, "me", "unassigned"},
        d  \in {NoDate, Date(1)},
        o  \in {Undefined, "true"}}

NextFilter ==
    \/ CreateProject("p1", "u2", <<>>, FALSE)
    \/ \E st \in {"todo", "completed"}, a \in {Undefined, "u2"}, d \in {NoDate, Date(1)} :
          taskSeq < MaxLifecycleTasks /\ CreateTaskBody("u2", "p1", st, Undefined, a, d)
    \/ \E q \in FilterInputs : GetTasksFiltered("u2", q, 1, DefaultLimit)
    \/ Tick

SpecFilter == Init /\ [][NextFilter]_vars
\* The requests a token holder sends to the routes behind protect.
RequestBy(u) ==
    \/ Protected(u, "getMe", GetMe(u))
    \/ Protected(u, "createProject", CreateProject("p1", u, <<>>, FALSE))
    \/ Protected(u, "getProject", GetProject(u, "p1"))
    \/ \E id \in Users \cup {UnknownUser}, a \in {<<>>, <<TRUE>>, <<FALSE>>} :
          Protected(u, "updateUser", UpdateUser(u, id, a))
    \/ \E id \in Users \cup {UnknownUser} : Protected(u, "deleteUser", DeleteUser(u, id))

\* Accounts: users deactivated and reactivated by admins, while every user keeps
\* sending requests with a token issued earlier and logging in.
NextUser ==
    \/ \E u \in Users : RequestBy(u)
    \/ \E e \in Users \cup {UnknownUser}, isMatch \in BOOLEAN : Login(e, isMatch)

SpecUser == Init /\ [][NextUser]_vars
\* Concurrent toggles: subtasks are added to one task, then toggleSubtask requests
\* run in any interleaving of their reads and saves while the clock advances.
NextToggle ==
    \/ CreateProject("p1", "u2", <<>>, FALSE)
    \/ taskSeq = 0 /\ CreateTask("u2", "p1", Undefined, Undefined)
    \/ inflight = <<>> /\ subSeq < MaxSubtasks /\ AddSubtask("u2", 1)
    \/ \E sid \in 1..(MaxSubtasks + 1) : ToggleSubtaskFind("u2", 1, sid)
    \/ \E r \in 1..MaxRequests : ToggleSubtaskSave(r)
    \/ Tick

SpecToggle == Init /\ [][NextToggle]_vars
\* Concurrent reactions: addReaction requests of both users on one comment run in
\* any interleaving of their reads and saves.
NextReactionRace ==
    \/ CreateProject("p1", "u2", <<>>, FALSE)
    \/ taskSeq = 0 /\ CreateTask("u2", "p1", Undefined, Undefined)
    \/ commentSeq = 0 /\ CreateComment("u2", "first", 1, NoComment)
    \/ \E u \in Users, ty \in ReactionInputs : AddReactionFind(u, 1, ty)
    \/ \E r \in 1..MaxRequests : AddReactionSave(r)

SpecReactionRace == Init /\ [][NextReactionRace]_vars
\* No request of inflight is between two of its awaits.
Idle ==
    \A r \in DOMAIN inflight : inflight[r].pc \in {"done", "crashed"}

\* A stopped cascade: projects with tasks, and deleteProject requests, one at a
\* time, each of which may stop between its two store operations.
NextCrash ==
    \/ \E p \in ProjectIds : p \notin usedProjects /\ CreateProject(p, "u2", <<>>, FALSE)
    \/ \E p \in ProjectIds :
          Idle /\ taskSeq < MaxCascadeTasks /\ CreateTask("u2", p, Undefined, Undefined)
    \/ \E u \in Users, p \in ProjectIds : Idle /\ DeleteProjectFind(u, p)
    \/ \E r \in 1..MaxRequests : DeleteProjectTasks(r)
    \/ \E r \in 1..MaxRequests : DeleteProjectDoc(r)
    \/ \E r \in 1..MaxRequests : DeleteProjectCrash(r)

SpecCrash == Init /\ [][NextCrash]_vars
\* Request bodies that name the references of a document next to allowed fields.
ProjectBodies ==
    {[owner |-> "u1"], [owner |-> "u1", isPublic |-> TRUE], [status |-> "completed"]}

TaskBodies ==
    {[project |-> "p2"], [creator |-> "u1", status |-> "in-progress"], [isArchived |-> TRUE]}

\* References: one project, one task and one comment, and every operation that
\* writes to them, with bodies that name owner, project and creator.
NextFrame ==
    \/ CreateProject("p1", "u2", <<>>, FALSE)
    \/ \E u \in Users, body \in ProjectBodies : UpdateProjectFields(u, "p1", body)
    \/ AddMember("u2", "p1", "u1", "member")
    \/ RemoveMember("u2", "p1", "u1")
    \/ taskSeq = 0 /\ CreateTask("u2", "p1", Undefined, Undefined)
    \/ \E body \in TaskBodies : UpdateTaskFields("u1", 1, body)
    \/ UpdateTaskStatus("u1", 1, "completed", <<1>>)
    \/ subSeq = 0 /\ AddSubtask("u1", 1)
    \/ ToggleSubtask("u1", 1, 1)
    \/ DeleteSubtask("u1", 1, 1)
    \/ commentSeq = 0 /\ CreateComment("u2", "first", 1, NoComment)
    \/ UpdateComment("u2", 1, "second")
    \/ \E u \in Users : DeleteComment(u, 1)
    \/ AddReaction("u1", 1, "like")
    \/ RemoveReaction("u1", 1)

SpecFrame == Init /\ [][NextFrame]_vars
\* Replies across tasks: comments and replies written on the tasks of one
\* project, the reply naming any task and any parent.
NextReply ==
    \/ CreateProject("p1", "u2", <<>>, FALSE)
    \/ taskSeq < MaxTasks /\ CreateTask("u2", "p1", Undefined, Undefined)
    \/ \E u \in Users, t \in 1..MaxTasks, parent \in 0..MaxComments :
          commentSeq < MaxComments /\ CreateComment(u, "first", t, parent)
    \/ \E t \in 1..MaxTasks : GetComments("u2", t, 1, DefaultLimit)

SpecReply == Init /\ [][NextReply]_vars

----------------------------------------------------------------------------
(* Properties *)

\* The users of the entries of a stored project's members list.
MemberUsers(P) == {P.members[i].user : i \in 1..Len(P.members)}

\* u is the owner of the stored project P or the user of one of its members.
Listed(P, u) == u = P.owner \/ u \in MemberUsers(P)

\* The rule of the specification for changing a project: owner, member with
\* role admin, or global admin.
ManageRule(P, u) ==
    \/ u = P.owner
    \/ \E i \in 1..Len(P.members) : P.members[i].user = u /\ P.members[i].role = "admin"
    \/ UserRole[u] = "admin"

\* C1: for every stored project P and user u, isMember(P, u) is true exactly when
\* u is P's owner or the user of an entry of P.members, whether the references are
\* bare ObjectIds or populated user documents; the owner of a project with no
\* members is a member.
C1_IsMember ==
    \A p \in DOMAIN projects : \A u \in Users :
        /\ isMember(FindProject(p), u) = Listed(projects[p], u)
        /\ isMember(Populate(FindProject(p)), u) = Listed(projects[p], u)
        /\ (projects[p].members = <<>> => isMember(FindProject(p), projects[p].owner))

\* C1 witness: the owner of a project without members was just let in by getProject
\* (populated references) while the other user is no member.
C1_Witness ==
    /\ res.op = "getProject" /\ res.code = 200
    /\ res.project \in DOMAIN projects
    /\ projects[res.project].members = <<>>
    /\ ~projects[res.project].isPublic
    /\ res.user = projects[res.project].owner
    /\ \E u \in Users : ~isMember(FindProject(res.project), u)

\* C2 (as claimed): no project's members list ever holds two entries with the same
\* user id.
C2_NoDuplicateMembers ==
    \A p \in DOMAIN projects :
        \A i, j \in 1..Len(projects[p].members) :
            i # j => projects[p].members[i].user # projects[p].members[j].user

\* C3 (as claimed): removeMember(P, owner(P)) fails with the invalid-operation
\* error (400) whoever the requester is, and no removeMember call changes P.owner.
C3_RemoveOwnerAlways400 ==
    [][\A u \in Users, p \in ProjectIds, x \in Users :
          RemoveMember(u, p, x) /\ p \in DOMAIN projects =>
             /\ p \in DOMAIN projects' /\ projects'[p].owner = projects[p].owner
             /\ (x = projects[p].owner => res'.code = 400 /\ projects' = projects)]_vars

\* C3 (amended): removeMember(P, owner(P)) always fails and leaves P unchanged, with
\* 403 when the requester is neither P's owner nor a global admin and with the
\* invalid-operation error (400) otherwise; no removeMember call changes P.owner.
C3_RemoveOwnerRejected ==
    [][\A u \in Users, p \in ProjectIds, x \in Users :
          RemoveMember(u, p, x) /\ p \in DOMAIN projects =>
             /\ p \in DOMAIN projects' /\ projects'[p].owner = projects[p].owner
             /\ (x = projects[p].owner =>
                   /\ projects' = projects
                   /\ res'.code = IF u = projects[p].owner \/ UserRole[u] = "admin"
                                  THEN 400 ELSE 403)]_vars

\* C3 witness: a removeMember aimed at the owner, sent by a requester who is neither
\* the owner nor a global admin, was just refused with 403.
C3_Witness ==
    /\ res.op = "removeMember" /\ res.code = 403
    /\ res.project \in DOMAIN projects
    /\ res.target = projects[res.project].owner
    /\ res.user # projects[res.project].owner

\* C4 (as claimed): the owner of a project is never the user of an entry of its
\* members list.
C4_OwnerNotInMembers ==
    \A p \in DOMAIN projects : projects[p].owner \notin MemberUsers(projects[p])

\* C5 (as claimed): updateProject and deleteProject on an existing project are
\* permitted exactly when the requester is the owner, a member with role admin or
\* a global admin; everyone else gets 403 and the project and its tasks are
\* unchanged.
C5_UpdateDeleteRule ==
    [][\A u \in Users, p \in ProjectIds :
          /\ p \in DOMAIN projects
          /\ (DeleteProject(u, p) \/ \E pub \in {<<>>, <<TRUE>>, <<FALSE>>} : UpdateProject(u, p, pub))
          => IF ManageRule(projects[p], u)
             THEN res'.code = 200
             ELSE res'.code = 403 /\ projects' = projects /\ tasks' = tasks]_vars

\* C6 (as claimed): addMember and removeMember on an existing project are permitted
\* under the rule of updateProject (owner, member with role admin, global admin);
\* everyone else gets 403 and the members are unchanged.
C6_MemberOpsRule ==
    [][\A u \in Users, p \in ProjectIds, x \in Users :
          /\ p \in DOMAIN projects
          /\ (RemoveMember(u, p, x) \/ \E r \in RoleInputs : AddMember(u, p, x, r))
          => IF ManageRule(projects[p], u)
             THEN res'.code # 403
             ELSE res'.code = 403 /\ projects' = projects]_vars

\* C7 (as claimed): viewing a non-public project through getProject or
\* getTasksByProject succeeds exactly when the requester is a member of the
\* project or a global admin; everyone else gets 403.
C7_ViewRule ==
    (/\ res.op \in {"getProject", "getTasksByProject"}
     /\ res.project \in DOMAIN projects
     /\ ~projects[res.project].isPublic)
    => res.code = IF Listed(projects[res.project], res.user) \/ UserRole[res.user] = "admin"
                  THEN 200 ELSE 403

\* C8: createTask answers 404 when the project does not exist and 403 when the
\* requester is neither its owner nor one of its members, public project or not,
\* and leaves the tasks unchanged in both cases; otherwise it stores one new task
\* of that project created by the requester.
C8_CreateTaskGate ==
    [][\A u \in Users, p \in ProjectIds :
          CreateTask(u, p, Undefined, Undefined) =>
             IF p \notin DOMAIN projects
             THEN res'.code = 404 /\ tasks' = tasks
             ELSE IF ~Listed(projects[p], u)
             THEN res'.code = 403 /\ tasks' = tasks
             ELSE /\ res'.code = 201
                  /\ DOMAIN tasks' = DOMAIN tasks \cup {res'.task}
                  /\ res'.task \notin DOMAIN tasks
                  /\ tasks'[res'.task].project = p
                  /\ tasks'[res'.task].creator = u
                  /\ \A t \in DOMAIN tasks : tasks'[t] = tasks[t]]_vars

\* C8 witness: a user who is no member of a public project was just refused with
\* 403 by createTask.
C8_Witness ==
    /\ res.op = "createTask" /\ res.code = 403
    /\ res.project \in DOMAIN projects
    /\ projects[res.project].isPublic
    /\ ~Listed(projects[res.project], res.user)

\* C9: a task just created with status S (todo when none is sent) in project P has
\* order 0 when no other stored task has project P and status S, and otherwise one
\* more than the largest order among those tasks; its watchers are exactly its
\* creator and its priority is medium when none is sent.
C9_CreateTaskOrder ==
    res.op = "createTask" /\ res.code = 201 =>
        LET S      == IF res.status = Undefined THEN "todo" ELSE res.status
            new    == tasks[res.task]
            column == {t \in DOMAIN tasks \ {res.task} :
                          tasks[t].project = res.project /\ tasks[t].status = S}
        IN  /\ new.project = res.project
            /\ new.status = S
            /\ IF column = {}
               THEN new.order = 0
               ELSE /\ \A t \in column : tasks[t].order < new.order
                    /\ \E t \in column : tasks[t].order + 1 = new.order
            /\ new.watchers = <<res.user>>
            /\ new.creator = res.user
            /\ new.priority = IF res.priority = Undefined THEN "medium" ELSE res.priority

\* C9 witness: the second task was just created into a column whose only task had
\* been dragged to order MaxOrder, and got the order after it.
C9_Witness ==
    /\ res.op = "createTask" /\ res.code = 201
    /\ tasks[res.task].order = MaxOrder + 1
    /\ \E t \in DOMAIN tasks \ {res.task} :
          /\ tasks[t].project = tasks[res.task].project
          /\ tasks[t].status = tasks[res.task].status
          /\ tasks[t].order = MaxOrder
    /\ res.priority = Undefined

\* C10 (as claimed): through updateTaskStatus, setting the status to completed
\* leaves completedAt set, setting any other status leaves it unset, and entering
\* completed from another status sets it to the time of that request.
C10_StatusCompletedAt ==
    [][\A u \in Users, t \in 1..MaxLifecycleTasks, st \in TaskStatuses :
          UpdateTaskStatus(u, t, st, <<>>) /\ t \in DOMAIN tasks =>
             /\ (st = "completed" => tasks'[t].completedAt # NoDate)
             /\ (st # "completed" => tasks'[t].completedAt = NoDate)
             /\ (st = "completed" /\ tasks[t].status # "completed"
                    => tasks'[t].completedAt = Date(now))]_vars

\* C11 (as claimed): in every state reached by createTask, updateTask (PUT) and
\* updateTaskStatus (PATCH), a task has a completedAt exactly when its status is
\* completed.
C11_CompletedAtIffCompleted ==
    \A t \in DOMAIN tasks :
        (tasks[t].completedAt # NoDate) <=> (tasks[t].status = "completed")

\* C12 (as claimed): a project whose status becomes completed, at createProject or
\* by updateProject, has a completedAt from then on, and no request changes or
\* clears a completedAt that is already set.
C12_ProjectCompletedAt ==
    [][\A p \in DOMAIN projects' :
          /\ (projects'[p].status = "completed" => projects'[p].completedAt # NoDate)
          /\ (p \in DOMAIN projects /\ projects[p].completedAt # NoDate
                 => projects'[p].completedAt = projects[p].completedAt)]_vars

\* C13: a deleteProject(P) that succeeds leaves no task of project P in the store,
\* archived or not, so that listing the tasks of P returns nothing, and leaves the
\* tasks of every other project as they were.
C13_DeleteCascade ==
    [][\A u \in Users, p \in ProjectIds :
          DeleteProject(u, p) /\ res'.code = 200 =>
             /\ \A t \in DOMAIN tasks' : tasks'[t].project # p
             /\ TaskQuery(tasks', p) = <<>>
             /\ \A t \in DOMAIN tasks :
                   tasks[t].project # p => t \in DOMAIN tasks' /\ tasks'[t] = tasks[t]]_vars

\* C13 witness: a project holding one of the two tasks was just deleted, its task
\* went with it and the task of the other project is still stored.
C13_Witness ==
    /\ res.op = "deleteProject" /\ res.code = 200
    /\ taskSeq = MaxCascadeTasks
    /\ Cardinality(DOMAIN tasks) = MaxCascadeTasks - 1
    /\ \E t \in DOMAIN tasks : tasks[t].project # res.project

\* C14 (as claimed): whatever the interleaving of a deleteProject with concurrent
\* createTask requests on the same project, once every started request has
\* completed no stored task refers to a project that is not stored.
C14_NoOrphanTasks ==
    (\A r \in DOMAIN inflight : inflight[r].pc = "done")
    => \A t \in DOMAIN tasks : tasks[t].project \in DOMAIN projects

\* C15: toggleSubtask on an existing task and subtask flips the subtask's
\* isCompleted, so that a second toggle gives back the original value; a toggle
\* that makes the subtask complete sets its completedAt to the time of the request
\* and one that makes it incomplete clears it; nothing else of the task changes;
\* an unknown task or subtask id is answered 404 and the tasks are unchanged.
C15_ToggleSubtask ==
    [][\A t \in 1..(MaxLifecycleTasks + 1), sid \in 1..(MaxSubtasks + 1) :
          ToggleSubtask("u2", t, sid) =>
             IF t \notin DOMAIN tasks
                \/ \A k \in 1..Len(tasks[t].subtasks) : tasks[t].subtasks[k]._id # sid
             THEN res'.code = 404 /\ tasks' = tasks
             ELSE \E k \in 1..Len(tasks[t].subtasks) :
                     LET old == tasks[t].subtasks[k]
                         new == tasks'[t].subtasks[k]
                     IN  /\ old._id = sid /\ new._id = sid
                         /\ res'.code = 200
                         /\ new.isCompleted = ~old.isCompleted
                         /\ new.completedAt = IF new.isCompleted THEN Date(now) ELSE NoDate
                         /\ Toggle(new).isCompleted = old.isCompleted
                         /\ tasks' = [tasks EXCEPT ![t].subtasks[k] = new]]_vars

\* C15 witness: a toggle just made a subtask incomplete again, which had been
\* completed by an earlier toggle, and its completedAt is cleared.
C15_Witness ==
    /\ res.op = "toggleSubtask" /\ res.code = 200
    /\ \E k \in 1..Len(tasks[res.task].subtasks) :
          /\ tasks[res.task].subtasks[k]._id = res.subtask
          /\ ~tasks[res.task].subtasks[k].isCompleted
          /\ tasks[res.task].subtasks[k].completedAt = NoDate

\* C16: every comment holds at most one reaction per user; addReaction(C, U, t)
\* overwrites the type of U's entry in place when U has one, leaving the entries
\* of the other users and the order as they were, and appends one entry
\* otherwise; removeReaction(C, U) removes U's entry and changes nothing when U
\* has none.
C16_OneReactionPerUser ==
    [][/\ \A c \in DOMAIN comments' :
             \A i, j \in 1..Len(comments'[c].reactions) :
                i # j => comments'[c].reactions[i].user # comments'[c].reactions[j].user
       /\ \A u \in Users, c \in DOMAIN comments :
             LET old == comments[c].reactions
                 new == comments'[c].reactions
                 has == \E i \in 1..Len(old) : old[i].user = u
             IN  /\ \A ty \in ReactionInputs :
                       AddReaction(u, c, ty) =>
                          IF has
                          THEN /\ Len(new) = Len(old)
                               /\ \A i \in 1..Len(old) :
                                     new[i] = IF old[i].user = u
                                              THEN [user |-> u, type |-> ty] ELSE old[i]
                          ELSE new = Append(old, [user |-> u, type |-> ty])
                 /\ RemoveReaction(u, c) =>
                       /\ \A i \in 1..Len(new) : new[i].user # u
                       /\ new = SelectSeq(old, LAMBDA r : r.user # u)
                       /\ (~has => new = old)]_vars

\* C16 witness: a user who reacted before the other user just changed the type of
\* that reaction to heart: the entry is still the first of two.
C16_Witness ==
    /\ res.op = "addReaction" /\ res.code = 200
    /\ Len(comments[res.comment].reactions) = 2
    /\ comments[res.comment].reactions[1] = [user |-> res.user, type |-> "heart"]
    /\ comments[res.comment].reactions[2].user # res.user

\* C17 (as claimed): after deleteComment on a reply its record is kept with
\* isDeleted set and the tombstone as content, and the listing of getComments
\* still shows every stored reply, deleted or not, in the reply list of its parent.
C17_DeletedReplyListed ==
    /\ (res.op = "deleteComment" /\ res.code = 200 =>
           /\ res.comment \in DOMAIN comments
           /\ comments[res.comment].isDeleted
           /\ comments[res.comment].content = Tombstone)
    /\ (res.op = "getComments" /\ res.code = 200 =>
           \A i \in 1..Len(res.items) :
              \A r \in DOMAIN comments :
                 comments[r].parentComment = res.items[i]._id =>
                    \E k \in 1..Len(res.items[i].replies) : res.items[i].replies[k] = r)

\* C18: updateComment by the author of an existing comment sets the content sent,
\* isEdited and editedAt and nothing else; any other requester, a global admin
\* included, is answered 403 and no comment changes.
C18_UpdateCommentAuthorOnly ==
    [][\A u \in Users, c \in DOMAIN comments, content \in ContentInputs :
          UpdateComment(u, c, content) =>
             IF u = comments[c].author
             THEN /\ res'.code = 200
                  /\ comments' = [comments EXCEPT ![c].content  = content,
                                                  ![c].isEdited = TRUE,
                                                  ![c].editedAt = Date(now)]
             ELSE res'.code = 403 /\ comments' = comments]_vars

\* C18 witness: the global admin was just refused the edit of a comment written
\* by the other user.
C18_Witness ==
    /\ res.op = "updateComment" /\ res.code = 403
    /\ UserRole[res.user] = "admin"
    /\ comments[res.comment].author # res.user

\* C19: deleteComment on an existing comment succeeds exactly when the requester
\* is its author or a global admin; the comment then stays stored with isDeleted
\* set and the tombstone as content, and every other comment is unchanged; anyone
\* else is answered 403 and no comment changes.
C19_DeleteCommentRule ==
    [][\A u \in Users, c \in DOMAIN comments :
          DeleteComment(u, c) =>
             IF u = comments[c].author \/ UserRole[u] = "admin"
             THEN /\ res'.code = 200
                  /\ DOMAIN comments' = DOMAIN comments
                  /\ comments'[c].isDeleted
                  /\ comments'[c].content = Tombstone
                  /\ \A d \in DOMAIN comments \ {c} : comments'[d] = comments[d]
             ELSE res'.code = 403 /\ comments' = comments]_vars

\* C19 witness: the global admin just soft-deleted a comment written by the other
\* user, which is still stored.
C19_Witness ==
    /\ res.op = "deleteComment" /\ res.code = 200
    /\ UserRole[res.user] = "admin"
    /\ comments[res.comment].author # res.user
    /\ comments[res.comment].isDeleted

\* The pages 1..k of a listing, each cut by skip and limit, one after the other.
RECURSIVE ConcatPages(_, _, _)
ConcatPages(full, k, limit) ==
    IF k = 0 THEN <<>> ELSE ConcatPages(full, k - 1, limit) \o SkipLimit(full, k, limit)

\* C20 (as claimed): every answer of a list query with limit >= 1 (getTasks,
\* getComments) carries total = size of the filtered result, pages =
\* ceil(total / limit), hasNext = (current * limit < total) and hasPrev =
\* (current > 1); its items are the page's slice of the sorted result, and the
\* pages 1..pages one after the other give the whole result, nothing twice and
\* nothing left out.
C20_Pagination ==
    res.op \in {"getTasks", "getComments"} /\ res.code = 200 =>
        LET pg    == res.pagination
            full  == IF res.op = "getTasks" THEN TaskQuery(tasks, res.project)
                     ELSE CommentQuery(comments, res.task)
            items == IF res.op = "getTasks" THEN res.items
                     ELSE [i \in 1..Len(res.items) |-> res.items[i]._id]
        IN  /\ pg.total = Len(full)
            /\ pg.pages * pg.limit >= pg.total
            /\ (pg.pages - 1) * pg.limit < pg.total \/ pg.pages = 0
            /\ "hasNext" \in DOMAIN pg /\ pg.hasNext = (pg.current * pg.limit < pg.total)
            /\ "hasPrev" \in DOMAIN pg /\ pg.hasPrev = (pg.current > 1)
            /\ items = SkipLimit(full, pg.current, pg.limit)
            /\ ConcatPages(full, pg.pages, pg.limit) = full
            /\ \A i, j \in 1..Len(full) : i # j => full[i] # full[j]

\* The mutating task operations other than updateTaskStatus.
GuardedTaskOps ==
    {"createTask", "updateTask", "deleteTask", "addSubtask", "toggleSubtask", "deleteSubtask"}

\* C21 (as claimed): a createTask, updateTask, deleteTask, addSubtask,
\* toggleSubtask or deleteSubtask request whose requester is not a member of the
\* task's project is rejected and leaves the tasks as they were.
C21_NonMemberRejected ==
    [][\A u \in Users :
          /\ res'.op \in GuardedTaskOps
          /\ res'.user = u
          /\ res'.project \in DOMAIN projects
          /\ ~isMember(FindProject(res'.project), u)
          => res'.code = 403 /\ tasks' = tasks]_vars

\* C22: the view of getTasksByProject(P) holds every non-archived task of P
\* exactly once, in the bucket named by its current status, and nothing else, and
\* every bucket is listed by ascending order.
C22_KanbanBuckets ==
    res.op = "getTasksByProject" /\ res.code = 200 =>
       /\ DOMAIN res.grouped = {"todo", "in-progress", "in-review", "completed"}
       /\ \A b \in DOMAIN res.grouped :
             LET col == res.grouped[b]
             IN  /\ \A i \in 1..Len(col) :
                       /\ col[i] \in DOMAIN tasks
                       /\ tasks[col[i]].project = res.project
                       /\ ~tasks[col[i]].isArchived
                       /\ tasks[col[i]].status = b
                 /\ \A i, j \in 1..Len(col) :
                       /\ (i # j => col[i] # col[j])
                       /\ (i < j => tasks[col[i]].order <= tasks[col[j]].order)
       /\ \A t \in DOMAIN tasks :
             tasks[t].project = res.project /\ ~tasks[t].isArchived =>
                \E i \in 1..Len(res.grouped[tasks[t].status]) :
                   res.grouped[tasks[t].status][i] = t

\* C22 witness: T1 and T2 were created in todo with orders 0 and 1, T1 was moved
\* to in-progress, and the view shows todo: [T2], in-progress: [T1].
C22_Witness ==
    /\ res.op = "getTasksByProject" /\ res.code = 200
    /\ DOMAIN tasks = {1, 2}
    /\ tasks[1].order = 0 /\ tasks[2].order = 1
    /\ res.grouped["todo"] = <<2>>
    /\ res.grouped["in-progress"] = <<1>>

\* C23 (as claimed): every task returned by getTasks is non-archived and meets
\* every filter sent with the request: project, status list, priority, assignee,
\* the day of dueDate, and overdue (dueDate < now and status not completed).
C23_AllFiltersHold ==
    res.op = "getTasks" /\ res.code = 200 /\ "filters" \in DOMAIN res =>
       \A i \in 1..Len(res.items) :
          LET t == tasks[res.items[i]]
              q == res.filters
          IN  /\ ~t.isArchived
              /\ (q.project # Undefined => t.project = q.project)
              /\ (q.status # <<>> => \E k \in 1..Len(q.status) : t.status = q.status[k])
              /\ (q.priority # Undefined => t.priority = q.priority)
              /\ (q.assignee = "me" => t.assignee = res.user)
              /\ (q.assignee = "unassigned" => t.assignee = Undefined)
              /\ (q.assignee \in Users => t.assignee = q.assignee)
              /\ (q.dueDate # NoDate =>
                     /\ t.dueDate # NoDate
                     /\ t.dueDate[1] \div TicksPerDay = q.dueDate[1] \div TicksPerDay)
              /\ (q.overdue = "true" =>
                     /\ t.dueDate # NoDate
                     /\ t.dueDate[1] < now
                     /\ t.status # "completed")

\* C24: deleteUser removes no user record: when it succeeds the target is another
\* user, who is then inactive, and a requester naming themself is refused with
\* the records unchanged. While a user is inactive, every request sent with that
\* user's token to a route behind protect is answered 401 and changes nothing,
\* and every login of that user is answered 401.
C24_DeactivatedRejected ==
    [][\A u \in Users :
          /\ \A id \in Users \cup {UnknownUser} :
                Protected(u, "deleteUser", DeleteUser(u, id)) =>
                   /\ DOMAIN users' = DOMAIN users
                   /\ (res'.code = 200 =>
                          id # u /\ ~users'[id].isActive
                          /\ \A x \in Users \ {id} : users'[x] = users[x])
                   /\ (id = u => res'.code # 200 /\ users' = users)
          /\ (~users[u].isActive =>
                /\ RequestBy(u) =>
                      res'.code = 401 /\ users' = users /\ projects' = projects
                /\ \A isMatch \in BOOLEAN : Login(u, isMatch) => res'.code = 401)]_vars

\* C24 witness: a plain user who was deactivated by an admin, and not reactivated
\* since, just had a request with their token refused.
C24_Witness ==
    /\ res.op = "getMe" /\ res.code = 401
    /\ res.user \in Users
    /\ ~users[res.user].isActive
    /\ UserRole[res.user] # "admin"

\* The toggleSubtask requests in flight or finished that found subtask sid of task t.
TogglesOf(t, sid) ==
    {r \in DOMAIN inflight :
        /\ inflight[r].op = "toggleSubtask"
        /\ inflight[r].task = t /\ inflight[r].subtaskId = sid
        /\ inflight[r].subtask # <<>>}

\* C25: toggleSubtask writes what it computed from its own earlier read: right
\* after a save the stored subtask is the one that request wrote, and when the
\* only two toggles of a subtask have both read the same isCompleted value and
\* both saved, the stored value is the negation of that value (flipped once, not
\* restored) and the stored subtask is the one written by one of the two.
C25_ToggleRace ==
    /\ (res.op = "toggleSubtask" /\ res.code = 200 =>
           tasks[res.task].subtasks[SubtaskIndex(tasks[res.task], res.subtask)] = res.written)
    /\ \A t \in DOMAIN tasks :
          \A k \in 1..Len(tasks[t].subtasks) :
             LET rs == TogglesOf(t, tasks[t].subtasks[k]._id)
             IN  \A r1, r2 \in rs :
                    /\ r1 # r2 /\ rs = {r1, r2}
                    /\ inflight[r1].pc = "done" /\ inflight[r2].pc = "done"
                    /\ inflight[r1].subtask[1].isCompleted = inflight[r2].subtask[1].isCompleted
                    => /\ tasks[t].subtasks[k].isCompleted = inflight[r1].subtask[1].isCompleted
                       /\ tasks[t].subtasks[k] \in {inflight[r1].subtask[1], inflight[r2].subtask[1]}

\* C25 witness: two toggles of a subtask that started incomplete both read it
\* incomplete and both saved; the subtask is complete, not incomplete again.
C25_Witness ==
    /\ 1 \in DOMAIN tasks /\ Len(tasks[1].subtasks) >= 1
    /\ TogglesOf(1, tasks[1].subtasks[1]._id) = {1, 2}
    /\ inflight[1].pc = "done" /\ inflight[2].pc = "done"
    /\ inflight[1].subtask[1].isCompleted /\ inflight[2].subtask[1].isCompleted
    /\ tasks[1].subtasks[1].isCompleted

\* C26 (as claimed): in every reachable state, interleaved addReaction requests
\* included, no comment holds two reactions of the same user.
C26_OneReactionUnderRace ==
    \A c \in DOMAIN comments :
       \A i, j \in 1..Len(comments[c].reactions) :
          comments[c].reactions[i].user = comments[c].reactions[j].user => i = j

\* C27 (as claimed): once a deleteProject request has stopped between its two
\* store operations on a project that had tasks, the store holds orphaned tasks:
\* tasks whose project is no longer stored.
C27_CrashLeavesOrphans ==
    \A r \in DOMAIN inflight :
       /\ inflight[r].op = "deleteProject" /\ inflight[r].pc = "crashed"
       /\ Len(inflight) = 1 /\ taskSeq > 0 /\ usedProjects = {inflight[r].project}
       => \E t \in DOMAIN tasks : tasks[t].project \notin DOMAIN projects

\* C27 (amended): when a deleteProject request stops after its first store
\* operation (Task.deleteMany) and before its second (project.deleteOne), the
\* project is still stored and none of its tasks is: no stored task refers to a
\* missing project.
C27_CrashKeepsProject ==
    [][\A r \in 1..MaxRequests :
          DeleteProjectCrash(r) =>
             /\ inflight[r].project \in DOMAIN projects'
             /\ \A t \in DOMAIN tasks' :
                   /\ tasks'[t].project # inflight[r].project
                   /\ tasks'[t].project \in DOMAIN projects']_vars

\* C27 witness: the only request so far, a deleteProject, stopped between its two
\* store operations: the tasks created before are gone and the project is stored.
C27_Witness ==
    /\ Len(inflight) = 1
    /\ inflight[1].op = "deleteProject" /\ inflight[1].pc = "crashed"
    /\ taskSeq > 0 /\ tasks = <<>>
    /\ DOMAIN projects = {inflight[1].project}

\* C28: no step changes the owner of a stored project, the project or the creator
\* of a stored task, or the task or the author of a stored comment, whatever the
\* request body names.
C28_ReferencesImmutable ==
    [][/\ \A p \in DOMAIN projects \cap DOMAIN projects' :
             projects'[p].owner = projects[p].owner
       /\ \A t \in DOMAIN tasks \cap DOMAIN tasks' :
             /\ tasks'[t].project = tasks[t].project
             /\ tasks'[t].creator = tasks[t].creator
       /\ \A c \in DOMAIN comments \cap DOMAIN comments' :
             /\ comments'[c].task = comments[c].task
             /\ comments'[c].author = comments[c].author]_vars

\* C28 witness: an updateProject whose body named another user as owner was just
\* answered 200, and the project has the owner it was created with.
C28_Witness ==
    /\ res.op = "updateProject" /\ res.code = 200
    /\ "owner" \in DOMAIN res.body /\ "isPublic" \in DOMAIN res.body
    /\ projects[res.project].isPublic
    /\ projects[res.project].owner # res.body.owner

\* C29 (as claimed): in every reachable state, two different tasks with the same
\* project and the same status have different order values.
C29_DistinctOrders ==
    \A t1, t2 \in DOMAIN tasks :
       /\ t1 # t2
       /\ tasks[t1].project = tasks[t2].project
       /\ tasks[t1].status = tasks[t2].status
       => tasks[t1].order # tasks[t2].order

\* C30 (as claimed): in every reachable state the parent of a reply is a stored
\* comment of the same task as the reply, and a createComment naming a parent
\* that is missing or belongs to another task creates no comment.
C30_ParentSameTask ==
    /\ \A c \in DOMAIN comments :
          comments[c].parentComment # NoComment =>
             /\ comments[c].parentComment \in DOMAIN comments
             /\ comments[comments[c].parentComment].task = comments[c].task
    /\ (res.op = "createComment" /\ res.code = 201 =>
           LET new == comments[res.comment]
           IN  new.parentComment # NoComment =>
                  /\ new.parentComment \in DOMAIN comments
                  /\ comments[new.parentComment].task = new.task)

====
